---- MODULE Spec2Model ----
(***************************************************************************)
(* A model of the Baseline MCP adapter (tools.ts and index.ts).            *)
(*                                                                         *)
(* JavaScript strings are sequences of one-character strings, so that      *)
(* trim, replace, substring, template literals, JSON.stringify and         *)
(* JSON.parse are computed character by character.  JavaScript values are  *)
(* tagged records (Undefined, Null, Bool, Num, Str, Arr, Obj); an object   *)
(* is the ordered sequence of its own enumerable entries <<key, value>>.   *)
(* Numbers are integers; keys that are array indices come first, in        *)
(* ascending order, as JavaScript enumerates them.                         *)
(***************************************************************************)
EXTENDS Integers, Sequences, FiniteSets, TLC

VARIABLES
  BASELINE_API_KEY,   \* the process-wide credential (a string)
  BASELINE_API_URL,   \* the process-wide base URL (a string)
  pc,                 \* the invocation: "idle", "awaiting" (suspended on fetch), "resolved"
  cur,                \* the invocation under way: [tool, args], and the credential it read
  sent,               \* the HTTP requests this invocation handed to fetch, in order
  resp,               \* what fetch produced for this invocation
  outcome,            \* how the handler's promise settled
  sFn,                \* the sanitizer applied: "none", "sanitizeString", "sanitizeObject"
  sIn,                \* the sanitizer's input
  sOut,               \* what the sanitizer produced
  env,                \* env.BASELINE_API_KEY of the agent (undefined when absent)
  server,             \* the agent's McpServer: how far init got, the tools registered
  http,               \* what default.fetch did with the last HTTP request
  reply,              \* the last answer of the McpServer to tools/list or tools/call
  sse,                \* the event-stream session: the stream, the requests posted to it
  calls               \* the invocations of concurrent sessions, one slot for each

vars == <<BASELINE_API_KEY, BASELINE_API_URL, pc, cur, sent, resp, outcome, sFn, sIn, sOut,
          env, server, http, reply, sse, calls>>
gatewayVars == <<BASELINE_API_KEY, BASELINE_API_URL, pc, cur, sent, resp, outcome>>
sanitizerVars == <<sFn, sIn, sOut>>
serverVars == <<env, server, http, reply>>
sessionVars == <<sse, calls>>

(***************************************************************************)
(* String literals, as character sequences.                                *)
(***************************************************************************)
\* the characters of a string literal, each a string of length one
L(s) == [i \in 1..Len(s) |-> SubSeq(s, i, i)]

(***************************************************************************)
(* Strings                                                                 *)
(***************************************************************************)
Min(a, b) == IF a <= b THEN a ELSE b

\* String.prototype.trim: white space and line terminators
IsWhitespace(c) == c \in {" ", "\t", "\n", "\r", "\f"}

RECURSIVE FirstNonWs(_, _)
FirstNonWs(s, i) ==
  IF i > Len(s) \/ ~IsWhitespace(s[i]) THEN i ELSE FirstNonWs(s, i + 1)

RECURSIVE LastNonWs(_, _)
LastNonWs(s, i) ==
  IF i < 1 \/ ~IsWhitespace(s[i]) THEN i ELSE LastNonWs(s, i - 1)

Trim(s) == SubSeq(s, FirstNonWs(s, 1), LastNonWs(s, Len(s)))

\* String.prototype.substring(0, n)
Substring0(s, n) == SubSeq(s, 1, Min(Len(s), n))

\* String.prototype.includes
Contains(s, pat) ==
  \E i \in 1..(Len(s) - Len(pat) + 1) : SubSeq(s, i, i + Len(pat) - 1) = pat

StartsWith(s, pat) == Len(pat) <= Len(s) /\ SubSeq(s, 1, Len(pat)) = pat

Digit(d) == <<"0", "1", "2", "3", "4", "5", "6", "7", "8", "9">>[d + 1]

RECURSIVE NatChars(_)
NatChars(n) == IF n < 10 THEN <<Digit(n)>> ELSE NatChars(n \div 10) \o <<Digit(n % 10)>>

\* Number.prototype.toString of an integer
NumChars(n) == IF n < 0 THEN <<"-">> \o NatChars(0 - n) ELSE NatChars(n)

IsString(s) ==
  /\ DOMAIN s = 1..Len(s)
  /\ \A i \in 1..Len(s) : s[i] \in STRING /\ Len(s[i]) = 1

(***************************************************************************)
(* JavaScript values                                                       *)
(***************************************************************************)
Undefined == [t |-> "undefined"]
Null == [t |-> "null"]
Bool(b) == [t |-> "boolean", v |-> b]
Num(n) == [t |-> "number", v |-> n]
Str(s) == [t |-> "string", v |-> s]
Arr(items) == [t |-> "array", v |-> items]
Obj(entries) == [t |-> "object", v |-> entries]

\* the typeof operator
TypeOf(x) ==
  CASE x.t \in {"null", "array", "object"} -> "object"
    [] OTHER -> x.t

\* ToBoolean
Truthy(x) ==
  CASE x.t \in {"undefined", "null"} -> FALSE
    [] x.t = "boolean" -> x.v
    [] x.t = "number" -> x.v # 0
    [] x.t = "string" -> x.v # <<>>
    [] OTHER -> TRUE

HasOwn(o, k) == o.t = "object" /\ \E i \in 1..Len(o.v) : o.v[i][1] = k

\* o[k] for a value that is not null or undefined: an own entry of an object,
\* undefined on anything else (no key used here names a built-in property)
Get(o, k) ==
  IF HasOwn(o, k)
  THEN o.v[CHOOSE i \in 1..Len(o.v) : o.v[i][1] = k][2]
  ELSE Undefined

\* an integer index: such keys are enumerated first, in ascending order
IsArrayIndex(k) ==
  /\ Len(k) \in 1..9
  /\ \A i \in 1..Len(k) : k[i] \in {"0", "1", "2", "3", "4", "5", "6", "7", "8", "9"}
  /\ Len(k) = 1 \/ k[1] # "0"

RECURSIVE IndexValue(_)
IndexValue(k) ==
  IF k = <<>> THEN 0
  ELSE IndexValue(SubSeq(k, 1, Len(k) - 1)) * 10
       + (CHOOSE d \in 0..9 : Digit(d) = k[Len(k)])

InsertAt(entries, n, e) == SubSeq(entries, 1, n) \o <<e>> \o SubSeq(entries, n + 1, Len(entries))

\* CreateDataProperty: a key already there keeps its place; a new integer index
\* goes among the integer indices, any other new key goes last
DefineOwn(entries, k, x) ==
  IF \E i \in 1..Len(entries) : entries[i][1] = k
  THEN [i \in 1..Len(entries) |-> IF entries[i][1] = k THEN <<k, x>> ELSE entries[i]]
  ELSE IF IsArrayIndex(k)
  THEN InsertAt(entries,
                Cardinality({i \in 1..Len(entries) :
                               IsArrayIndex(entries[i][1])
                               /\ IndexValue(entries[i][1]) < IndexValue(k)}),
                <<k, x>>)
  ELSE Append(entries, <<k, x>>)

\* o[k] = x on an ordinary object whose prototype is Object.prototype: the key
\* __proto__ reaches the accessor of Object.prototype, which sets the prototype
\* (or does nothing) and creates no own property
SetProperty(entries, k, x) ==
  IF k = L("__proto__") THEN entries ELSE DefineOwn(entries, k, x)

RECURSIVE JoinStrings(_, _)
JoinStrings(parts, sep) ==
  IF parts = <<>> THEN <<>>
  ELSE IF Len(parts) = 1 THEN parts[1]
  ELSE parts[1] \o sep \o JoinStrings(Tail(parts), sep)

\* ToString, as a template literal or .toString() applies it
RECURSIVE ToJsString(_)
ToJsString(x) ==
  CASE x.t = "undefined" -> L("undefined")
    [] x.t = "null" -> L("null")
    [] x.t = "boolean" -> IF x.v THEN L("true") ELSE L("false")
    [] x.t = "number" -> NumChars(x.v)
    [] x.t = "string" -> x.v
    [] x.t = "array" ->
         JoinStrings([i \in 1..Len(x.v) |->
                        IF x.v[i].t \in {"undefined", "null"} THEN <<>> ELSE ToJsString(x.v[i])],
                     L(","))
    [] x.t = "object" -> L("[object Object]")

(***************************************************************************)
(* JSON.stringify and JSON.parse                                           *)
(***************************************************************************)
\* QuoteJSONString: the escapes of the characters used here
EscapeChar(c) ==
  CASE c = "\"" -> <<"\\", "\"">>
    [] c = "\\" -> <<"\\", "\\">>
    [] c = "\n" -> <<"\\", "n">>
    [] c = "\t" -> <<"\\", "t">>
    [] c = "\r" -> <<"\\", "r">>
    [] c = "\f" -> <<"\\", "f">>
    [] OTHER -> <<c>>

RECURSIVE EscapeChars(_)
EscapeChars(s) == IF s = <<>> THEN <<>> ELSE EscapeChar(Head(s)) \o EscapeChars(Tail(s))

Quote(s) == <<"\"">> \o EscapeChars(s) \o <<"\"">>

\* SerializeJSONProperty: ind is the current indentation, gap the indent unit
\* (empty for JSON.stringify(x), two spaces for JSON.stringify(x, null, 2))
RECURSIVE Serialize(_, _, _)
Serialize(x, ind, gap) ==
  LET stepback == ind
      inner == ind \o gap
      sep == IF gap = <<>> THEN L(",") ELSE L(",") \o <<"\n">> \o inner
      colon == IF gap = <<>> THEN L(":") ELSE L(": ")
      wrap(open, parts, close) ==
        IF parts = <<>> THEN open \o close
        ELSE IF gap = <<>> THEN open \o JoinStrings(parts, sep) \o close
        ELSE open \o <<"\n">> \o inner \o JoinStrings(parts, sep) \o <<"\n">> \o stepback \o close
  IN CASE x.t = "null" -> L("null")
       [] x.t = "boolean" -> IF x.v THEN L("true") ELSE L("false")
       [] x.t = "number" -> NumChars(x.v)
       [] x.t = "string" -> Quote(x.v)
       [] x.t = "array" ->
            wrap(L("["),
                 [i \in 1..Len(x.v) |->
                    IF x.v[i].t = "undefined" THEN L("null") ELSE Serialize(x.v[i], inner, gap)],
                 L("]"))
       [] x.t = "object" ->
            LET kept == SelectSeq(x.v, LAMBDA e : e[2].t # "undefined")
            IN wrap(L("{"),
                    [i \in 1..Len(kept) |->
                       Quote(kept[i][1]) \o colon \o Serialize(kept[i][2], inner, gap)],
                    L("}"))

\* JSON.stringify(x): a string, or undefined for undefined
JSONStringify(x) == IF x.t = "undefined" THEN Undefined ELSE Str(Serialize(x, <<>>, <<>>))

\* JSON.stringify(x, null, 2)
JSONStringifyPretty(x) ==
  IF x.t = "undefined" THEN Undefined ELSE Str(Serialize(x, <<>>, L("  ")))

IsJsonWs(c) == c \in {" ", "\t", "\n", "\r"}
IsDigit(c) == c \in {"0", "1", "2", "3", "4", "5", "6", "7", "8", "9"}
DigitValue(c) == CHOOSE d \in 0..9 : Digit(d) = c

ParseFail == [ok |-> FALSE]
Parsed(x, pos) == [ok |-> TRUE, v |-> x, pos |-> pos]

RECURSIVE SkipWs(_, _)
SkipWs(s, i) == IF i <= Len(s) /\ IsJsonWs(s[i]) THEN SkipWs(s, i + 1) ELSE i

\* the characters of a JSON string from position i (after the opening quote)
RECURSIVE ParseString(_, _, _)
ParseString(s, i, acc) ==
  IF i > Len(s) THEN ParseFail
  ELSE IF s[i] = "\"" THEN Parsed(acc, i + 1)
  ELSE IF s[i] \in {"\n", "\t", "\r", "\f"} THEN ParseFail
  ELSE IF s[i] = "\\" THEN
    IF i + 1 > Len(s) THEN ParseFail
    ELSE CASE s[i + 1] = "\"" -> ParseString(s, i + 2, Append(acc, "\""))
           [] s[i + 1] = "\\" -> ParseString(s, i + 2, Append(acc, "\\"))
           [] s[i + 1] = "/" -> ParseString(s, i + 2, Append(acc, "/"))
           [] s[i + 1] = "n" -> ParseString(s, i + 2, Append(acc, "\n"))
           [] s[i + 1] = "t" -> ParseString(s, i + 2, Append(acc, "\t"))
           [] s[i + 1] = "r" -> ParseString(s, i + 2, Append(acc, "\r"))
           [] s[i + 1] = "f" -> ParseString(s, i + 2, Append(acc, "\f"))
           [] OTHER -> ParseFail
  ELSE ParseString(s, i + 1, Append(acc, s[i]))

RECURSIVE ParseDigits(_, _, _)
ParseDigits(s, i, acc) ==
  IF i <= Len(s) /\ IsDigit(s[i])
  THEN ParseDigits(s, i + 1, 10 * acc + DigitValue(s[i]))
  ELSE Parsed(acc, i)

\* an integer: -? (0 | [1-9][0-9]*); fractions and exponents are not used here
ParseNumber(s, i) ==
  LET neg == s[i] = "-"
      j == IF neg THEN i + 1 ELSE i
  IN IF j > Len(s) \/ ~IsDigit(s[j]) THEN ParseFail
     ELSE IF s[j] = "0" THEN Parsed(Num(0), j + 1)
     ELSE LET d == ParseDigits(s, j, 0)
          IN Parsed(Num(IF neg THEN 0 - d.v ELSE d.v), d.pos)

RECURSIVE ParseValue(_, _)
RECURSIVE ParseMembers(_, _, _)
RECURSIVE ParseElements(_, _, _)

\* the members of an object from position i, a member expected
ParseMembers(s, i, acc) ==
  LET j == SkipWs(s, i)
  IN IF j > Len(s) \/ s[j] # "\"" THEN ParseFail
     ELSE LET k == ParseString(s, j + 1, <<>>)
          IN IF ~k.ok THEN ParseFail
             ELSE LET c == SkipWs(s, k.pos)
                  IN IF c > Len(s) \/ s[c] # ":" THEN ParseFail
                     ELSE LET x == ParseValue(s, c + 1)
                          IN IF ~x.ok THEN ParseFail
                             ELSE LET e == SkipWs(s, x.pos)
                                      next == DefineOwn(acc, k.v, x.v)
                                  IN IF e > Len(s) THEN ParseFail
                                     ELSE IF s[e] = "," THEN ParseMembers(s, e + 1, next)
                                     ELSE IF s[e] = "}" THEN Parsed(Obj(next), e + 1)
                                     ELSE ParseFail

\* the elements of an array from position i, an element expected
ParseElements(s, i, acc) ==
  LET x == ParseValue(s, i)
  IN IF ~x.ok THEN ParseFail
     ELSE LET e == SkipWs(s, x.pos)
              next == Append(acc, x.v)
          IN IF e > Len(s) THEN ParseFail
             ELSE IF s[e] = "," THEN ParseElements(s, e + 1, next)
             ELSE IF s[e] = "]" THEN Parsed(Arr(next), e + 1)
             ELSE ParseFail

ParseValue(s, i) ==
  LET j == SkipWs(s, i)
  IN IF j > Len(s) THEN ParseFail
     ELSE CASE s[j] = "{" ->
                 LET c == SkipWs(s, j + 1)
                 IN IF c <= Len(s) /\ s[c] = "}" THEN Parsed(Obj(<<>>), c + 1)
                    ELSE ParseMembers(s, j + 1, <<>>)
            [] s[j] = "[" ->
                 LET c == SkipWs(s, j + 1)
                 IN IF c <= Len(s) /\ s[c] = "]" THEN Parsed(Arr(<<>>), c + 1)
                    ELSE ParseElements(s, j + 1, <<>>)
            [] s[j] = "\"" ->
                 LET r == ParseString(s, j + 1, <<>>)
                 IN IF r.ok THEN Parsed(Str(r.v), r.pos) ELSE ParseFail
            [] s[j] = "-" \/ IsDigit(s[j]) -> ParseNumber(s, j)
            [] StartsWith(SubSeq(s, j, Len(s)), L("true")) -> Parsed(Bool(TRUE), j + 4)
            [] StartsWith(SubSeq(s, j, Len(s)), L("false")) -> Parsed(Bool(FALSE), j + 5)
            [] StartsWith(SubSeq(s, j, Len(s)), L("null")) -> Parsed(Null, j + 4)
            [] OTHER -> ParseFail

\* JSON.parse(s): [ok |-> TRUE, v |-> the value], or [ok |-> FALSE] where it
\* throws a SyntaxError
JSONParse(s) ==
  LET r == ParseValue(s, 1)
  IN IF r.ok /\ SkipWs(s, r.pos) > Len(s) THEN [ok |-> TRUE, v |-> r.v] ELSE ParseFail

(***************************************************************************)
(* Validation and sanitization helpers                                     *)
(***************************************************************************)
Throw(name, message) == [kind |-> "throw", error |-> [name |-> name, message |-> message]]
Value(x) == [kind |-> "value", v |-> x]

\* validateRequiredArgs: returns, or throws on the first field that is absent
RECURSIVE validateRequiredArgs(_, _)
validateRequiredArgs(args, requiredFields) ==
  IF requiredFields = <<>> THEN Value(Undefined)
  ELSE LET field == Head(requiredFields)
       IN IF ~Truthy(args) \/ Get(args, field).t \in {"undefined", "null"}
          THEN Throw("Error", L("Missing required argument: ") \o field)
          ELSE validateRequiredArgs(args, Tail(requiredFields))

SanitizeMaxLen == 1000
UnsafeChars == {"<", ">", "\"", "'", "&"}

\* the three steps with the cut made before the characters are removed
StripTruncateBeforeStrip(s) ==
  SelectSeq(Substring0(Trim(s), SanitizeMaxLen), LAMBDA c : c \notin UnsafeChars)

\* input.trim().replace(/[<>\"'&]/g, '').substring(0, 1000)
StripAndTruncate(s) ==
  Substring0(SelectSeq(Trim(s), LAMBDA c : c \notin UnsafeChars), SanitizeMaxLen)

sanitizeString(input) ==
  IF TypeOf(input) # "string"
  THEN Throw("Error", L("Input must be a string"))
  ELSE Value(Str(StripAndTruncate(input.v)))

\* sanitizeValue of sanitizeObject; sanitizeString cannot throw on a string
RECURSIVE sanitizeValue(_)
RECURSIVE sanitizeEntries(_, _)
sanitizeEntries(entries, sanitized) ==
  IF entries = <<>> THEN sanitized
  ELSE sanitizeEntries(Tail(entries),
                       SetProperty(sanitized, Head(entries)[1], sanitizeValue(Head(entries)[2])))

sanitizeValue(obj) ==
  IF TypeOf(obj) = "string" THEN sanitizeString(obj).v
  ELSE IF TypeOf(obj) = "object" /\ obj.t # "null" THEN
    IF obj.t = "array"
    THEN Arr([i \in 1..Len(obj.v) |-> sanitizeValue(obj.v[i])])
    ELSE Obj(sanitizeEntries(obj.v, <<>>))
  ELSE obj

sanitizeObject(input) ==
  IF TypeOf(input) # "object" \/ input.t = "null"
  THEN Throw("Error", L("Input must be an object"))
  ELSE Value(sanitizeValue(input))

(***************************************************************************)
(* The upstream client: makeRequest, split at its await of fetch           *)
(***************************************************************************)
DefaultApiUrl == L("https://production.baselinesoftware.com/production/api")

\* Object.values
Values(x) ==
  CASE x.t = "object" -> [i \in 1..Len(x.v) |-> x.v[i][2]]
    [] x.t = "array" -> x.v
    [] OTHER -> <<>>

\* the else-if chain taken from its last key to its first
CredentialKeysReversed ==
  <<L("secret"), L("value"), L("key"), L("apiKey"), L("BASELINE_API_KEY")>>

\* the priority keys of the credential lookup, in the order of the else-if chain
CredentialKeys ==
  <<L("BASELINE_API_KEY"), L("apiKey"), L("key"), L("value"), L("secret")>>

\* the apiKey of makeRequest (a JavaScript value: a field need not be a string)
ResolveApiKey(key) ==
  LET p == JSONParse(key)
  IN IF p.ok /\ Truthy(p.v) /\ TypeOf(p.v) = "object"
     THEN LET hits == SelectSeq(CredentialKeys, LAMBDA k : Truthy(Get(p.v, k)))
              stringValues == SelectSeq(Values(p.v), LAMBDA x : TypeOf(x) = "string")
          IN IF hits # <<>> THEN Get(p.v, hits[1])
             ELSE IF Len(stringValues) > 0 THEN stringValues[1]
             ELSE Str(key)
     ELSE Str(key)

Fetch(request) == [kind |-> "fetch", request |-> request]

\* makeRequest with the endpoint fixed when the module is loaded
BuildRequestDefaultUrl(method, path, body) ==
  Fetch([method |-> method,
         url |-> DefaultApiUrl \o path,
         path |-> path,
         Authorization |-> L("Token ") \o ToJsString(ResolveApiKey(BASELINE_API_KEY)),
         ContentType |-> L("application/json"),
         Accept |-> L("application/json"),
         body |-> IF Truthy(body) THEN JSONStringify(body) ELSE Undefined])

\* makeRequest from the credential lookup to the call of fetch
BuildRequest(method, path, body) ==
  Fetch([method |-> method,
         url |-> BASELINE_API_URL \o path,
         path |-> path,
         Authorization |-> L("Token ") \o ToJsString(ResolveApiKey(BASELINE_API_KEY)),
         ContentType |-> L("application/json"),
         Accept |-> L("application/json"),
         body |-> IF Truthy(body) THEN JSONStringify(body) ELSE Undefined])

\* makeRequest without its first statement
MakeRequestStartNoKeyCheck(method, path, body) == BuildRequest(method, path, body)

\* makeRequest up to fetch: throws, or hands one request to fetch
MakeRequestStart(method, path, body) ==
  IF ~Truthy(Str(BASELINE_API_KEY))
  THEN Throw("Error", L("BASELINE_API_KEY is not configured. Please set it via environment variables or the 'setBaselineApiKey' function."))
  ELSE BuildRequest(method, path, body)

\* Response.ok
ResponseOk(response) == response.status >= 200 /\ response.status <= 299

\* the data of a response when every body is handed to JSON.parse
ParseResponseAlways(response) ==
  LET p == JSONParse(response.body)
  IN IF p.ok THEN Value(p.v)
     ELSE Throw("SyntaxError", L("Unexpected end of JSON input"))

\* the data of a response: {} for an empty body, else the body parsed
ParseResponse(response) ==
  IF ~Truthy(Str(response.body)) THEN Value(Obj(<<>>))
  ELSE LET p == JSONParse(response.body)
       IN IF p.ok THEN Value(p.v)
          ELSE Throw("SyntaxError", L("Unexpected token in JSON"))

\* makeRequest without its test of response.ok
MakeRequestFinishIgnoringStatus(response) == ParseResponse(response)

\* makeRequest from the response on: throws, or returns the data
MakeRequestFinish(response) ==
  IF ~ResponseOk(response)
  THEN Throw("Error", L("API request failed: ") \o NumChars(response.status) \o L(" ")
                        \o response.statusText \o L(" - Body: ") \o response.body)
  ELSE ParseResponse(response)

(***************************************************************************)
(* The tool handlers                                                       *)
(***************************************************************************)
ToolResult(text, isError) ==
  [content |-> <<[type |-> "text", text |-> text]>>, isError |-> isError]

Return(result) == [kind |-> "return", result |-> result]
\* a client whose every method sends GET
CallAlwaysGet(method, path, body) == [kind |-> "call", method |-> "GET", path |-> path, body |-> body]

\* createBaselineClient().get, post, patch, put, delete
Call(method, path, body) == [kind |-> "call", method |-> method, path |-> path, body |-> body]

\* what distinguishes one handler from the others of its shape
Tool(name) ==
  CASE name = "getLoan" -> [shape |-> "get", path |-> L("/loan"), id |-> L("loanId"), action |-> L("retrieving loan")]
    [] name = "listLoans" -> [shape |-> "listLoans", path |-> L("/loan"), action |-> L("listing loans")]
    [] name = "updateLoan" -> [shape |-> "update", path |-> L("/loan"), id |-> L("loanId"), data |-> L("updates"), action |-> L("updating loan")]
    [] name = "createLoan" -> [shape |-> "create", path |-> L("/loan"), data |-> L("loanData"), action |-> L("creating loan")]
    [] name = "getLoanLedger" -> [shape |-> "ledger", path |-> L("/loan"), id |-> L("loanId"), action |-> L("retrieving loan ledger")]
    [] name = "getTask" -> [shape |-> "get", path |-> L("/task"), id |-> L("taskId"), action |-> L("retrieving task")]
    [] name = "listTasks" -> [shape |-> "listTasks", path |-> L("/task"), action |-> L("listing tasks")]
    [] name = "createTask" -> [shape |-> "createTask", path |-> L("/task"), action |-> L("creating task")]
    [] name = "updateTask" -> [shape |-> "update", path |-> L("/task"), id |-> L("taskId"), data |-> L("updates"), action |-> L("updating task")]
    [] name = "deleteTask" -> [shape |-> "delete", path |-> L("/task"), id |-> L("taskId"), action |-> L("deleting task")]
    [] name = "createBorrower" -> [shape |-> "create", path |-> L("/borrower"), data |-> L("borrowerData"), action |-> L("creating borrower")]
    [] name = "listBorrowers" -> [shape |-> "listParty", path |-> L("/borrower"), action |-> L("listing borrowers")]
    [] name = "getBorrower" -> [shape |-> "get", path |-> L("/borrower"), id |-> L("borrowerId"), action |-> L("retrieving borrower")]
    [] name = "updateBorrower" -> [shape |-> "update", path |-> L("/borrower"), id |-> L("borrowerId"), data |-> L("updates"), action |-> L("updating borrower")]
    [] name = "deleteBorrower" -> [shape |-> "delete", path |-> L("/borrower"), id |-> L("borrowerId"), action |-> L("deleting borrower")]
    [] name = "connectBorrowers" -> [shape |-> "connect", path |-> L("/borrower"), id |-> L("borrowerId"), other |-> L("connectToBorrowerId"), action |-> L("connecting borrowers")]
    [] name = "disconnectBorrowers" -> [shape |-> "disconnect", path |-> L("/borrower"), id |-> L("borrowerId"), other |-> L("disconnectFromBorrowerId"), action |-> L("disconnecting borrowers")]
    [] name = "createVendor" -> [shape |-> "create", path |-> L("/vendor"), data |-> L("vendorData"), action |-> L("creating vendor")]
    [] name = "listVendors" -> [shape |-> "listParty", path |-> L("/vendor"), action |-> L("listing vendors")]
    [] name = "getVendor" -> [shape |-> "get", path |-> L("/vendor"), id |-> L("vendorId"), action |-> L("retrieving vendor")]
    [] name = "updateVendor" -> [shape |-> "update", path |-> L("/vendor"), id |-> L("vendorId"), data |-> L("updates"), action |-> L("updating vendor")]
    [] name = "deleteVendor" -> [shape |-> "delete", path |-> L("/vendor"), id |-> L("vendorId"), action |-> L("deleting vendor")]
    [] name = "connectVendors" -> [shape |-> "connect", path |-> L("/vendor"), id |-> L("vendorId"), other |-> L("connectToVendorId"), action |-> L("connecting vendors")]
    [] name = "disconnectVendors" -> [shape |-> "disconnect", path |-> L("/vendor"), id |-> L("vendorId"), other |-> L("disconnectFromVendorId"), action |-> L("disconnecting vendors")]
    [] name = "createInvestor" -> [shape |-> "create", path |-> L("/investor"), data |-> L("investorData"), action |-> L("creating investor")]
    [] name = "listInvestors" -> [shape |-> "listParty", path |-> L("/investor"), action |-> L("listing investors")]
    [] name = "getInvestor" -> [shape |-> "get", path |-> L("/investor"), id |-> L("investorId"), action |-> L("retrieving investor")]
    [] name = "updateInvestor" -> [shape |-> "update", path |-> L("/investor"), id |-> L("investorId"), data |-> L("updates"), action |-> L("updating investor")]
    [] name = "deleteInvestor" -> [shape |-> "delete", path |-> L("/investor"), id |-> L("investorId"), action |-> L("deleting investor")]
    [] name = "connectInvestors" -> [shape |-> "connect", path |-> L("/investor"), id |-> L("investorId"), other |-> L("connectToInvestorId"), action |-> L("connecting investors")]
    [] name = "disconnectInvestors" -> [shape |-> "disconnect", path |-> L("/investor"), id |-> L("investorId"), other |-> L("disconnectFromInvestorId"), action |-> L("disconnecting investors")]

ToolNames ==
  {"getLoan", "listLoans", "updateLoan", "createLoan", "getLoanLedger",
   "getTask", "listTasks", "createTask", "updateTask", "deleteTask",
   "createBorrower", "listBorrowers", "getBorrower", "updateBorrower", "deleteBorrower",
   "connectBorrowers", "disconnectBorrowers",
   "createVendor", "listVendors", "getVendor", "updateVendor", "deleteVendor",
   "connectVendors", "disconnectVendors",
   "createInvestor", "listInvestors", "getInvestor", "updateInvestor", "deleteInvestor",
   "connectInvestors", "disconnectInvestors"}

\* the fields each handler passes to validateRequiredArgs, in its order
RequiredFields(name) ==
  LET d == Tool(name)
  IN CASE d.shape \in {"get", "ledger", "delete"} -> <<d.id>>
       [] d.shape = "update" -> <<d.id, d.data>>
       [] d.shape = "create" -> <<d.data>>
       [] d.shape = "createTask" -> <<L("Name")>>
       [] d.shape \in {"connect", "disconnect"} -> <<d.id, d.other>>
       [] OTHER -> <<>>

\* typeof x !== 'string' || !x: the test without its trim
NotAnEmptyString(x) == TypeOf(x) # "string" \/ ~Truthy(x)

\* typeof x !== 'string' || !x.trim()
NotNonEmptyString(x) == TypeOf(x) # "string" \/ ~Truthy(Str(Trim(x.v)))

\* typeof x !== 'object' || x === null, and its variant !x || typeof x !== 'object'
NotAnObject(x) == TypeOf(x) # "object" \/ x.t = "null"

\* application/x-www-form-urlencoded serialization of one character
UrlEncodeChar(c) ==
  CASE c = " " -> L("+")
    [] c = "[" -> L("%5B")
    [] c = "]" -> L("%5D")
    [] c = "," -> L("%2C")
    [] c = "<" -> L("%3C")
    [] c = ">" -> L("%3E")
    [] c = "&" -> L("%26")
    [] c = "=" -> L("%3D")
    [] c = "?" -> L("%3F")
    [] c = "/" -> L("%2F")
    [] OTHER -> <<c>>

RECURSIVE UrlEncode(_)
UrlEncode(s) == IF s = <<>> THEN <<>> ELSE UrlEncodeChar(Head(s)) \o UrlEncode(Tail(s))

\* url += `?${params.toString()}` after params.append('page', page.toString())
WithPage(url, page) == url \o L("?") \o L("page") \o L("=") \o UrlEncode(ToJsString(page))

\* const { page } = args || {}
PageOf(args) == IF Truthy(args) THEN Get(args, L("page")) ELSE Undefined

FieldError(text) == Return(ToolResult(Str(text), TRUE))

\* The statements of a handler's try block after validateRequiredArgs and up
\* to its await: an early return, an exception, or the one call of the upstream
\* client.  One operator for each shape of handler.

\* getLoan, getTask, getBorrower, getVendor, getInvestor, getLoanLedger and
\* deleteTask, deleteBorrower, deleteVendor, deleteInvestor
TryById(d, args) ==
  LET id == Get(args, d.id)
  IN IF NotNonEmptyString(id)
     THEN FieldError(L("Error: ") \o d.id \o L(" must be a non-empty string"))
     ELSE LET sid == sanitizeString(id).v.v
          IN IF d.shape = "get" THEN Call("GET", d.path \o L("/") \o sid, Undefined)
             ELSE IF d.shape = "ledger"
             THEN Call("GET", d.path \o L("/") \o sid \o L("/transaction"), Undefined)
             ELSE Call("DELETE", d.path \o L("/") \o sid, Undefined)

\* updateLoan, updateTask, updateBorrower, updateVendor, updateInvestor
TryUpdate(d, args) ==
  LET id == Get(args, d.id)
      updates == Get(args, d.data)
  IN IF NotNonEmptyString(id)
     THEN FieldError(L("Error: ") \o d.id \o L(" must be a non-empty string"))
     ELSE IF NotAnObject(updates)
     THEN FieldError(L("Error: ") \o d.data \o L(" must be an object"))
     ELSE LET sid == sanitizeString(id).v.v
              body == sanitizeObject(updates)
          IN IF body.kind = "throw" THEN body
             ELSE Call("PATCH", d.path \o L("/") \o sid, body.v)

\* createLoan, createBorrower, createVendor, createInvestor
TryCreate(d, args) ==
  LET data == Get(args, d.data)
  IN IF NotAnObject(data)
     THEN FieldError(L("Error: ") \o d.data \o L(" must be an object"))
     ELSE LET body == sanitizeObject(data)
          IN IF body.kind = "throw" THEN body ELSE Call("POST", d.path, body.v)

\* createTask
TryCreateTask(d, args) ==
  LET body == sanitizeObject(args)
  IN IF body.kind = "throw" THEN body ELSE Call("POST", d.path, body.v)

\* connectBorrowers, disconnectBorrowers and those of vendors and investors
TryConnect(d, args) ==
  LET id == Get(args, d.id)
      other == Get(args, d.other)
  IN IF NotNonEmptyString(id) \/ NotNonEmptyString(other)
     THEN FieldError(L("Error: ") \o d.id \o L(" and ") \o d.other
                       \o L(" must be non-empty strings"))
     ELSE LET sid == sanitizeString(id).v.v
              sother == sanitizeString(other).v.v
              path == d.path \o L("/") \o sid \o L("/connect/") \o sother
          IN IF d.shape = "connect" THEN Call("PUT", path, Obj(<<>>))
             ELSE Call("DELETE", path, Undefined)

\* listLoans
TryListLoans(d, args) == Call("GET", d.path, Undefined)

\* listTasks without its test of the page
TryListTasksUnchecked(d, args) ==
  IF Truthy(PageOf(args)) THEN Call("GET", WithPage(d.path, PageOf(args)), Undefined)
  ELSE Call("GET", d.path, Undefined)

\* listTasks
TryListTasks(d, args) ==
  LET page == PageOf(args)
  IN IF Truthy(page)
     THEN IF TypeOf(page) # "number" \/ page.v < 0
          THEN FieldError(L("Error: page must be a non-negative number"))
          ELSE Call("GET", WithPage(d.path, page), Undefined)
     ELSE Call("GET", d.path, Undefined)

\* listBorrowers, listVendors, listInvestors
TryListParty(d, args) ==
  LET page == PageOf(args)
  IN IF Truthy(page) THEN Call("GET", WithPage(d.path, page), Undefined)
     ELSE Call("GET", d.path, Undefined)

TryBodyChecked(name, args) ==
  LET d == Tool(name)
  IN CASE d.shape \in {"get", "ledger", "delete"} -> TryById(d, args)
       [] d.shape = "update" -> TryUpdate(d, args)
       [] d.shape = "create" -> TryCreate(d, args)
       [] d.shape = "createTask" -> TryCreateTask(d, args)
       [] d.shape \in {"connect", "disconnect"} -> TryConnect(d, args)
       [] d.shape = "listLoans" -> TryListLoans(d, args)
       [] d.shape = "listTasks" -> TryListTasks(d, args)
       [] d.shape = "listParty" -> TryListParty(d, args)

AfterValidate(name, args, v) == IF v.kind = "throw" THEN v ELSE TryBodyChecked(name, args)

TryBody(name, args) ==
  AfterValidate(name, args, validateRequiredArgs(args, RequiredFields(name)))

\* x.length
LengthOf(x) ==
  CASE x.t \in {"string", "array"} -> Num(Len(x.v))
    [] x.t = "object" -> Get(x, L("length"))
    [] OTHER -> Undefined

\* a handler that wraps the data it received in an envelope
AfterResponseWrapped(name, data) ==
  [kind |-> "value",
   v |-> [content |-> <<[type |-> "text",
                         text |-> JSONStringifyPretty(Obj(<< <<L("data"), data>> >>))]>>,
          isError |-> FALSE]]

\* the statements of a handler's try block after its await: the result, or an
\* exception (listLoans reads a property of the data)
AfterResponse(name, data) ==
  IF Tool(name).shape = "listLoans"
  THEN IF data.t \in {"null", "undefined"}
       THEN Throw("TypeError", L("Cannot read properties of null (reading 'loans')"))
       ELSE LET loans == IF Truthy(Get(data, L("loans"))) THEN Get(data, L("loans")) ELSE data
                result == Obj(<< <<L("loans"), loans>>, <<L("totalCount"), LengthOf(loans)>> >>)
            IN Value(ToolResult(JSONStringifyPretty(result), FALSE))
  ELSE Value(ToolResult(JSONStringifyPretty(data), FALSE))

Returned(result) == [kind |-> "returned", result |-> result]
Thrown(error) == [kind |-> "thrown", error |-> error]
Pending == [kind |-> "pending"]

\* every value thrown here is an Error
InstanceOfError(error) == error.name \in {"Error", "TypeError", "SyntaxError"}

\* a handler without its catch block
HandlerRethrow(name, error) == Thrown(error)

\* the catch block of a handler
HandlerCatch(name, error) ==
  Returned(ToolResult(
    Str(L("Error ") \o Tool(name).action \o L(": ")
          \o (IF InstanceOfError(error) THEN error.message ELSE L("Unknown error"))),
    TRUE))

Settled(o) == [kind |-> "settled", outcome |-> o]

\* the await of makeRequest: its exception reaches the catch block, its
\* request goes to fetch
AfterStart(name, r) == IF r.kind = "throw" THEN Settled(HandlerCatch(name, r.error)) ELSE r

AfterTry(name, b) ==
  CASE b.kind = "return" -> Settled(Returned(b.result))
    [] b.kind = "throw" -> Settled(HandlerCatch(name, b.error))
    [] b.kind = "call" -> AfterStart(name, MakeRequestStart(b.method, b.path, b.body))

\* a handler that asks for the credential before it looks at its arguments
RunToFetchKeyFirst(name, args) ==
  IF BASELINE_API_KEY = <<>>
  THEN AfterStart(name, MakeRequestStart("GET", L("/"), Undefined))
  ELSE AfterTry(name, TryBody(name, args))

\* a handler from its call to its await of fetch: settled, or one request sent
RunToFetch(name, args) == AfterTry(name, TryBody(name, args))

AfterHandled(name, f) ==
  IF f.kind = "throw" THEN HandlerCatch(name, f.error) ELSE Returned(f.v)

AfterFinish(name, d) ==
  IF d.kind = "throw" THEN HandlerCatch(name, d.error)
  ELSE AfterHandled(name, AfterResponse(name, d.v))

\* a handler from the settlement of fetch to its own
Resume(name, response) ==
  IF response.kind = "reject" THEN HandlerCatch(name, response.error)
  ELSE AfterFinish(name, MakeRequestFinish(response))

(***************************************************************************)
(* The inputs the model draws on                                           *)
(***************************************************************************)
\* an object literal; a field whose value is undefined is left out
MkObj(pairs) == Obj(SelectSeq(pairs, LAMBDA e : e[2].t # "undefined"))

NestedSample ==
  MkObj(<< <<L("a"), Str(L("<b>"))>>,
           <<L("n"), Arr(<<MkObj(<< <<L("c"), Str(L("'x'"))>> >>), Num(7), Null, Bool(TRUE)>>)>> >>)

ProtoSample ==
  MkObj(<< <<L("Name"), Str(L("n"))>>,
           <<L("__proto__"), MkObj(<< <<L("x"), Str(L("y"))>> >>)>> >>)

GoodId == Str(L("42"))
GoodData == MkObj(<< <<L("Status"), Str(L("closed"))>> >>)

IdSamples ==
  {Undefined, Null, Str(L("")), Str(L(" \t")), GoodId, Str(L(" 7 ")), Str(L("<>")),
   Str(L("a&b")), Num(5), Obj(<<>>)}

DataSamples ==
  {Undefined, Null, Str(L("text")), Str(L("")), Num(3), Num(0), Obj(<<>>), GoodData,
   NestedSample, ProtoSample, Arr(<<Str(L("x"))>>)}

PageSamples ==
  {Undefined, Null, Num(0), Num(2), Num(-1), Str(L("x")), Str(L("2")), Bool(TRUE), Obj(<<>>)}

\* args that are no object at all
NonObjectArgs == {Undefined, Null, Str(L("args"))}

TaskSamples ==
  {MkObj(<< <<L("Name"), Str(L("T"))>> >>),
   MkObj(<< <<L("Name"), Str(L(" <T> "))>>, <<L("Description"), Str(L("a&b"))>>,
            <<L("Status"), Str(L("To Do"))>> >>),
   MkObj(<< <<L("Name"), Num(5)>> >>),
   MkObj(<< <<L("Name"), Str(L(""))>> >>),
   MkObj(<< <<L("Name"), Null>> >>),
   MkObj(<< <<L("Description"), Str(L("a&b"))>> >>),
   Obj(<<>>),
   ProtoSample}

ArgSamples(name) ==
  LET d == Tool(name)
  IN NonObjectArgs \cup
     CASE d.shape \in {"get", "ledger", "delete"} ->
            {MkObj(<< <<d.id, x>> >>) : x \in IdSamples}
       [] d.shape = "update" ->
            {MkObj(<< <<d.id, x>>, <<d.data, GoodData>> >>) : x \in IdSamples}
            \cup {MkObj(<< <<d.id, GoodId>>, <<d.data, y>> >>) : y \in DataSamples}
            \cup {MkObj(<< <<d.id, Str(L(""))>>, <<d.data, y>> >>) :
                    y \in {Undefined, Null, Str(L("text"))}}
       [] d.shape = "create" -> {MkObj(<< <<d.data, y>> >>) : y \in DataSamples}
       [] d.shape = "createTask" -> TaskSamples
       [] d.shape \in {"connect", "disconnect"} ->
            {MkObj(<< <<d.id, x>>, <<d.other, GoodId>> >>) : x \in IdSamples}
            \cup {MkObj(<< <<d.id, GoodId>>, <<d.other, x>> >>) : x \in IdSamples}
            \cup {MkObj(<< <<d.id, x>>, <<d.other, Str(L(" \t"))>> >>) :
                    x \in {Undefined, Null, Num(5)}}
       [] d.shape = "listLoans" -> {Obj(<<>>)}
       [] d.shape \in {"listTasks", "listParty"} ->
            {MkObj(<< <<L("page"), x>> >>) : x \in PageSamples}

\* what process.env can hold at module load: no credential, or one
EnvApiKeys == {L(""), L("sk_live_1")}

\* what setBaselineApiKey is called with
SetterApiKeys ==
  {Undefined, Str(L("")), Str(L("sk_live_1")), Str(L("{\"apiKey\":\"abc\"}"))}

ApiUrls == {DefaultApiUrl, L("https://staging.example/api")}

Response(status, statusText, body) ==
  [kind |-> "response", status |-> status, statusText |-> statusText, body |-> body]

\* what fetch can resolve to
ResponseSamples ==
  {Response(200, L("OK"), L("{\"Id\":\"1\",\"Name\":\"T\"}")),
   Response(200, L("OK"), L("{\"loans\":[{\"Id\":\"1\"},{\"Id\":\"2\"}]}")),
   Response(200, L("OK"), L("[{\"Id\":\"1\"}]")),
   Response(200, L("OK"), L("{\"a\\/b\":\"x\\\\y\\n\\\"q\\\"\",\"__proto__\":{\"k\":[]},\"10\":-5,\"9\":{},\"t\":true,\"n\":null}")),
   Response(200, L("OK"), L("null")),
   Response(200, L("OK"), L("<html>")),
   Response(204, L("No Content"), L("")),
   Response(404, L("Not Found"), L("not found")),
   Response(500, L("Internal Server Error"), L("{\"error\":\"boom\"}"))}

\* what fetch rejects with when the request cannot be completed
NetworkError == [name |-> "TypeError", message |-> L("fetch failed")]

(***************************************************************************)
(* The gateway: one invocation at a time, and the two setters              *)
(***************************************************************************)
NoInvocation == [tool |-> "none", args |-> Undefined, key |-> L("")]
NoResponse == [kind |-> "none"]

\* a new McpServer, before init: no tool registered
NewServer == [state |-> "new", next |-> 1, tools |-> <<>>, keyBefore |-> L("")]
NoRequest == [kind |-> "none"]
NoReply == [kind |-> "none"]

\* an agent that is not started: the handlers and sanitizers are called directly
InitNoServer == env = Undefined /\ server = NewServer /\ http = NoRequest /\ reply = NoReply

\* no event stream opened, no concurrent session
NoStream == [open |-> FALSE, events |-> <<>>, posted |-> {}, pending |-> {}, running |-> 0,
             lastPost |-> [kind |-> "none"]]
NoCalls == <<>>
InitNoSession == sse = NoStream /\ calls = NoCalls

InitSanitizer == sFn = "none" /\ sIn = Undefined /\ sOut = Pending

InitGateway ==
  /\ BASELINE_API_KEY \in EnvApiKeys
  /\ BASELINE_API_URL \in ApiUrls
  /\ pc = "idle"
  /\ cur = NoInvocation
  /\ sent = <<>>
  /\ resp = NoResponse
  /\ outcome = Pending

Init == InitGateway /\ InitSanitizer /\ InitNoServer /\ InitNoSession

\* setBaselineApiKey(key)
setBaselineApiKey(key) ==
  /\ BASELINE_API_KEY' = IF Truthy(key) THEN key.v ELSE BASELINE_API_KEY
  /\ UNCHANGED <<BASELINE_API_URL, pc, cur, sent, resp, outcome, sanitizerVars, serverVars, sessionVars>>

\* setBaselineApiUrl(url)
setBaselineApiUrl(url) ==
  /\ BASELINE_API_URL' = url
  /\ UNCHANGED <<BASELINE_API_KEY, pc, cur, sent, resp, outcome, sanitizerVars, serverVars, sessionVars>>

Started(r) ==
  IF r.kind = "settled"
  THEN pc' = "resolved" /\ sent' = sent /\ outcome' = r.outcome
  ELSE pc' = "awaiting" /\ sent' = Append(sent, r.request) /\ outcome' = Pending

\* toolHandlers[name](args), run to its await of fetch or to its return
InvokeWith(name, args) ==
  /\ pc = "idle"
  /\ cur' = [tool |-> name, args |-> args, key |-> BASELINE_API_KEY]
  /\ resp' = NoResponse
  /\ Started(RunToFetch(name, args))
  /\ UNCHANGED <<BASELINE_API_KEY, BASELINE_API_URL, sanitizerVars>>

\* a handler called directly
Invoke(name, args) == InvokeWith(name, args) /\ UNCHANGED <<serverVars, sessionVars>>

\* a client that sends its request a second time after a failure
FetchSettlesAndRetries(response) ==
  /\ pc = "awaiting"
  /\ resp' = response
  /\ IF (response.kind = "response" /\ ResponseOk(response)) \/ Len(sent) >= 2
     THEN /\ pc' = "resolved"
          /\ sent' = sent
          /\ outcome' = Resume(cur.tool, response)
     ELSE /\ pc' = "awaiting"
          /\ sent' = Append(sent, sent[1])
          /\ outcome' = Pending
  /\ UNCHANGED <<BASELINE_API_KEY, BASELINE_API_URL, cur, sanitizerVars, serverVars, sessionVars>>

\* a handler that goes on waiting when the response is not a success
FetchSettlesOnlyOk(response) ==
  /\ pc = "awaiting"
  /\ resp' = response
  /\ IF response.kind = "response" /\ ResponseOk(response)
     THEN pc' = "resolved" /\ outcome' = Resume(cur.tool, response)
     ELSE pc' = "awaiting" /\ outcome' = Pending
  /\ UNCHANGED <<BASELINE_API_KEY, BASELINE_API_URL, cur, sent, sanitizerVars, serverVars, sessionVars>>

\* fetch settles and the handler runs to its return
FetchSettles(response) ==
  /\ pc = "awaiting"
  /\ resp' = response
  /\ pc' = "resolved"
  /\ outcome' = Resume(cur.tool, response)
  /\ UNCHANGED <<BASELINE_API_KEY, BASELINE_API_URL, cur, sent, sanitizerVars, serverVars, sessionVars>>

FetchRejects == FetchSettles([kind |-> "reject", error |-> NetworkError])

FetchResponds == \E response \in ResponseSamples : FetchSettles(response)

\* the caller drops the settled invocation
Discard ==
  /\ pc = "resolved"
  /\ pc' = "idle"
  /\ cur' = NoInvocation
  /\ sent' = <<>>
  /\ resp' = NoResponse
  /\ outcome' = Pending
  /\ UNCHANGED <<BASELINE_API_KEY, BASELINE_API_URL, sanitizerVars, serverVars, sessionVars>>

CallTool == \E name \in ToolNames : \E args \in ArgSamples(name) : Invoke(name, args)
SetApiKey == \E key \in SetterApiKeys : setBaselineApiKey(key)
SetApiUrl == \E url \in ApiUrls : setBaselineApiUrl(url)

Next ==
  \/ CallTool
  \/ FetchRejects
  \/ FetchResponds
  \/ Discard
  \/ SetApiKey
  \/ SetApiUrl

Spec == Init /\ [][Next]_vars

\* the gateway when fetch always settles: the upstream call completes
SpecCompletes == Init /\ [][Next]_vars /\ WF_vars(FetchRejects \/ FetchResponds)

(***************************************************************************)
(* Credential resolution on its own: many credentials, a few invocations   *)
(***************************************************************************)
CredentialSamples ==
  {L("sk_live_1"),
   L("{\"apiKey\":\"abc\"}"),
   L("{\"BASELINE_API_KEY\":\"b1\",\"apiKey\":\"a1\"}"),
   L("{\"secret\":\"s1\",\"value\":\"v1\",\"key\":\"k1\"}"),
   L("{\"secret\":\"s1\",\"apiKey\":\"a1\"}"),
   L("{\"apiKey\":\"\",\"secret\":\"s1\"}"),
   L("{\"apiKey\":123}"),
   L("{\"n\":1,\"token\":\"t1\",\"other\":\"t2\"}"),
   L("{\"n\":1}"),
   L("{\"b\":\"x1\",\"10\":\"y1\",\"9\":\"z1\"}"),
   L("{}"),
   L("[\"x1\"]"),
   L("\"quoted\""),
   L("123"),
   L("null"),
   L("{\"apiKey\":")}

InitCredential ==
  /\ BASELINE_API_KEY \in CredentialSamples
  /\ BASELINE_API_URL = DefaultApiUrl
  /\ pc = "idle"
  /\ cur = NoInvocation
  /\ sent = <<>>
  /\ resp = NoResponse
  /\ outcome = Pending
  /\ InitSanitizer
  /\ InitNoServer
  /\ InitNoSession

CredentialCalls ==
  {<<"getLoan", MkObj(<< <<L("loanId"), GoodId>> >>)>>,
   <<"createTask", MkObj(<< <<L("Name"), Str(L("T"))>> >>)>>,
   <<"connectBorrowers",
     MkObj(<< <<L("borrowerId"), GoodId>>, <<L("connectToBorrowerId"), Str(L(" 7 "))>> >>)>>}

CallWithCredential == \E c \in CredentialCalls : Invoke(c[1], c[2])
RotateApiKey == \E key \in CredentialSamples : setBaselineApiKey(Str(key))

NextCredential ==
  \/ CallWithCredential
  \/ FetchRejects
  \/ FetchResponds
  \/ Discard
  \/ RotateApiKey

SpecCredential == InitCredential /\ [][NextCredential]_vars

(***************************************************************************)
(* The agent: MyMCP.init, the tool registry and the routing of default.fetch *)
(***************************************************************************)
\* a descriptor whose annotations all say read-only
DescriptorReadOnly(name, readOnly, destructive, idempotent, openWorld) ==
  [name |-> name, readOnlyHint |-> TRUE, destructiveHint |-> FALSE,
   idempotentHint |-> TRUE, openWorldHint |-> openWorld]

\* one element of toolDefinitions: its name and its annotations
Descriptor(name, readOnly, destructive, idempotent, openWorld) ==
  [name |-> name, readOnlyHint |-> readOnly, destructiveHint |-> destructive,
   idempotentHint |-> idempotent, openWorldHint |-> openWorld]

\* the descriptors of toolDefinitions, in their order: the name and the
\* annotations of each
toolDefinitions ==
  <<Descriptor("getLoan", TRUE, FALSE, TRUE, FALSE),
    Descriptor("listLoans", TRUE, FALSE, TRUE, FALSE),
    Descriptor("updateLoan", FALSE, FALSE, FALSE, FALSE),
    Descriptor("createLoan", FALSE, FALSE, FALSE, FALSE),
    Descriptor("getLoanLedger", TRUE, FALSE, TRUE, FALSE),
    Descriptor("getTask", TRUE, FALSE, TRUE, FALSE),
    Descriptor("listTasks", TRUE, FALSE, TRUE, FALSE),
    Descriptor("createTask", FALSE, FALSE, FALSE, FALSE),
    Descriptor("updateTask", FALSE, FALSE, FALSE, FALSE),
    Descriptor("deleteTask", FALSE, TRUE, TRUE, FALSE),
    Descriptor("createBorrower", FALSE, FALSE, FALSE, FALSE),
    Descriptor("listBorrowers", TRUE, FALSE, TRUE, FALSE),
    Descriptor("getBorrower", TRUE, FALSE, TRUE, FALSE),
    Descriptor("updateBorrower", FALSE, FALSE, FALSE, FALSE),
    Descriptor("deleteBorrower", FALSE, TRUE, TRUE, FALSE),
    Descriptor("connectBorrowers", FALSE, FALSE, FALSE, FALSE),
    Descriptor("disconnectBorrowers", FALSE, FALSE, FALSE, FALSE),
    Descriptor("createVendor", FALSE, FALSE, FALSE, FALSE),
    Descriptor("listVendors", TRUE, FALSE, TRUE, FALSE),
    Descriptor("getVendor", TRUE, FALSE, TRUE, FALSE),
    Descriptor("updateVendor", FALSE, FALSE, FALSE, FALSE),
    Descriptor("deleteVendor", FALSE, TRUE, TRUE, FALSE),
    Descriptor("connectVendors", FALSE, FALSE, FALSE, FALSE),
    Descriptor("disconnectVendors", FALSE, FALSE, FALSE, FALSE),
    Descriptor("createInvestor", FALSE, FALSE, FALSE, FALSE),
    Descriptor("listInvestors", TRUE, FALSE, TRUE, FALSE),
    Descriptor("getInvestor", TRUE, FALSE, TRUE, FALSE),
    Descriptor("updateInvestor", FALSE, FALSE, FALSE, FALSE),
    Descriptor("deleteInvestor", FALSE, TRUE, TRUE, FALSE),
    Descriptor("connectInvestors", FALSE, FALSE, FALSE, FALSE),
    Descriptor("disconnectInvestors", FALSE, FALSE, FALSE, FALSE)>>

\* the first position from i on of a character of set cs, Len(s) + 1 if none
FirstIndex(s, cs, i) ==
  IF \E j \in i..Len(s) : s[j] \in cs
  THEN CHOOSE j \in i..Len(s) : s[j] \in cs /\ \A k \in i..(j - 1) : s[k] \notin cs
  ELSE Len(s) + 1

PathFrom(url, b, e) == IF b = e THEN L("/") ELSE SubSeq(url, b, e - 1)

PathAfterAuthority(url, b) == PathFrom(url, b, FirstIndex(url, {"?", "#"}, b))

\* new URL(url).pathname for an absolute http(s) URL without dot segments:
\* what follows the authority, up to the query or the fragment; "/" if nothing
Pathname(url) ==
  PathAfterAuthority(url, FirstIndex(url, {"/", "?", "#"}, FirstIndex(url, {":"}, 1) + 3))

\* a routing that matches the beginning of the path only
RouteByPrefix(pathname) ==
  IF StartsWith(pathname, L("/sse")) THEN "serveSSE"
  ELSE IF StartsWith(pathname, L("/mcp")) \/ StartsWith(pathname, L("/message")) THEN "serve"
  ELSE "none"

\* a routing that forgets the alias the session endpoint lives at
RouteWithoutAliases(pathname) ==
  IF pathname = L("/sse") THEN "serveSSE"
  ELSE IF pathname = L("/mcp") THEN "serve"
  ELSE "none"

\* the two tests of default.fetch: the transport a pathname is handed to
Route(pathname) ==
  IF pathname = L("/sse") \/ pathname = L("/sse/message") THEN "serveSSE"
  ELSE IF pathname = L("/mcp") \/ pathname = L("/message") THEN "serve"
  ELSE "none"

NotFound == [status |-> 404, body |-> L("Not found")]
FromTransport == [status |-> 0, body |-> L("")]

Handled(url, by) ==
  [kind |-> "request", url |-> url, handledBy |-> by,
   response |-> IF by = "none" THEN NotFound ELSE FromTransport]

\* default.fetch(request, env, ctx)
fetch(url) ==
  /\ http' = Handled(url, Route(Pathname(url)))
  /\ UNCHANGED <<gatewayVars, sanitizerVars, env, server, reply, sessionVars>>

\* an init that registers every descriptor but the last
RegisteredAllButLast(s, tool) ==
  IF s.next >= Len(toolDefinitions) THEN [s EXCEPT !.state = "ready"]
  ELSE [s EXCEPT !.tools = Append(s.tools, tool.name), !.next = s.next + 1]

\* one turn of the loop of init: this.server.tool refuses a name that is
\* registered already, a descriptor without a handler is passed over
Registered(s, tool) ==
  IF tool.name \in ToolNames /\ \E i \in 1..Len(s.tools) : s.tools[i] = tool.name
  THEN [s EXCEPT !.state = "failed"]
  ELSE [s EXCEPT !.tools = IF tool.name \in ToolNames THEN Append(s.tools, tool.name) ELSE s.tools,
                 !.next = s.next + 1,
                 !.state = IF s.next = Len(toolDefinitions) THEN "ready" ELSE "registering"]

\* an init that does not test the credential
InitWithoutTest(apiKey) ==
  /\ BASELINE_API_KEY' = IF Truthy(apiKey) THEN apiKey.v ELSE BASELINE_API_KEY
  /\ server' = [server EXCEPT !.state = "registering", !.keyBefore = BASELINE_API_KEY]

\* init up to its loop: throws, or stores the credential with setBaselineApiKey
InitUpToLoop(apiKey) ==
  IF ~Truthy(apiKey)
  THEN /\ server' = [server EXCEPT !.state = "failed", !.keyBefore = BASELINE_API_KEY]
       /\ UNCHANGED BASELINE_API_KEY
  ELSE /\ BASELINE_API_KEY' = apiKey.v
       /\ server' = [server EXCEPT !.state = "registering", !.keyBefore = BASELINE_API_KEY]

\* MyMCP.init(), its first statements
InitStart ==
  /\ server.state = "new"
  /\ InitUpToLoop(IF Truthy(env) THEN env ELSE Str(L("")))
  /\ UNCHANGED <<BASELINE_API_URL, pc, cur, sent, resp, outcome, sanitizerVars, env, http, reply, sessionVars>>

\* MyMCP.init(), one turn of its loop
RegisterNext ==
  /\ server.state = "registering"
  /\ server' = Registered(server, toolDefinitions[server.next])
  /\ UNCHANGED <<gatewayVars, sanitizerVars, env, http, reply, sessionVars>>

\* tools/list, answered by the McpServer from what is registered with it
ListTools ==
  /\ server.state = "ready"
  /\ reply' = [kind |-> "tools", tools |-> server.tools]
  /\ UNCHANGED <<gatewayVars, sanitizerVars, env, server, http, sessionVars>>

\* the zod types the input schemas are built from
ZString == [z |-> "string"]
ZNumber == [z |-> "number"]
ZBoolean == [z |-> "boolean"]
ZEnum(values) == [z |-> "enum", values |-> values]
ZArray(element) == [z |-> "array", element |-> element]
ZObject(shape) == [z |-> "object", shape |-> shape]
ZOptional(inner) == [z |-> "optional", inner |-> inner]

\* a registration that passes no input schema
inputSchemaEmpty(name) == ZObject(<<>>)

\* the inputSchema of each descriptor of toolDefinitions
inputSchema(name) ==
  CASE name = "getLoan" -> ZObject(<< <<L("loanId"), ZString>> >>)
    [] name = "listLoans" -> ZObject(<<>>)
    [] name = "updateLoan" -> ZObject(<< <<L("loanId"), ZString>>,
          <<L("updates"), ZObject(<< <<L("Name"), ZOptional(ZString)>>,
          <<L("Status"), ZOptional(ZEnum({L("lead"), L("processing"), L("underwriting"), L("approved"), L("closed"), L("servicing"), L("archived")}))>>,
          <<L("Borrower_Name"), ZOptional(ZString)>>,
          <<L("Borrower_Email"), ZOptional(ZString)>>,
          <<L("Address_Street1"), ZOptional(ZString)>>,
          <<L("Address_City"), ZOptional(ZString)>>,
          <<L("Address_State"), ZOptional(ZString)>>,
          <<L("Address_Zipcode"), ZOptional(ZString)>>,
          <<L("Loan_Amount"), ZOptional(ZNumber)>>, <<L("Rate"), ZOptional(ZNumber)>>,
          <<L("Origination"), ZOptional(ZString)>>,
          <<L("Maturity"), ZOptional(ZString)>> >>)>> >>)
    [] name = "createLoan" -> ZObject(<< <<L("Id"), ZOptional(ZString)>>,
          <<L("Name"), ZOptional(ZString)>>,
          <<L("Status"), ZOptional(ZEnum({L("lead"), L("processing"), L("underwriting"), L("approved"), L("closed"), L("servicing"), L("archived")}))>>,
          <<L("Borrower_Name"), ZOptional(ZString)>>,
          <<L("Borrower_Email"), ZOptional(ZString)>>,
          <<L("Borrower_Id"), ZOptional(ZString)>>,
          <<L("Address_Street1"), ZOptional(ZString)>>,
          <<L("Address_City"), ZOptional(ZString)>>,
          <<L("Address_State"), ZOptional(ZString)>>,
          <<L("Address_Zipcode"), ZOptional(ZString)>>,
          <<L("Loan_Amount"), ZOptional(ZNumber)>>, <<L("Rate"), ZOptional(ZNumber)>>,
          <<L("Origination"), ZOptional(ZString)>>, <<L("Maturity"), ZOptional(ZString)>> >>)
    [] name = "getLoanLedger" -> ZObject(<< <<L("loanId"), ZString>> >>)
    [] name = "getTask" -> ZObject(<< <<L("taskId"), ZString>> >>)
    [] name = "listTasks" -> ZObject(<< <<L("page"), ZOptional(ZNumber)>> >>)
    [] name = "createTask" -> ZObject(<< <<L("Name"), ZString>>,
          <<L("Description"), ZOptional(ZString)>>, <<L("Date_Due"), ZOptional(ZString)>>,
          <<L("Status"), ZOptional(ZEnum({L("To Do"), L("In Progress"), L("Done"), L("Not Required")}))>>,
          <<L("Loan_Id"), ZOptional(ZString)>>,
          <<L("Subtasks"), ZOptional(ZArray(ZObject(<< <<L("Name"), ZString>>,
          <<L("Done"), ZOptional(ZBoolean)>> >>)))>> >>)
    [] name = "updateTask" -> ZObject(<< <<L("taskId"), ZString>>,
          <<L("updates"), ZObject(<< <<L("Name"), ZOptional(ZString)>>,
          <<L("Description"), ZOptional(ZString)>>, <<L("Date_Due"), ZOptional(ZString)>>,
          <<L("Status"), ZOptional(ZEnum({L("To Do"), L("In Progress"), L("Done"), L("Not Required")}))>>,
          <<L("Loan_Id"), ZOptional(ZString)>>,
          <<L("Subtasks"), ZOptional(ZArray(ZObject(<< <<L("Name"), ZString>>,
          <<L("Done"), ZOptional(ZBoolean)>> >>)))>> >>)>> >>)
    [] name = "deleteTask" -> ZObject(<< <<L("taskId"), ZString>> >>)
    [] name = "createBorrower" -> ZObject(<< <<L("borrowerData"), ZObject(<< <<L("Name"), ZOptional(ZString)>>,
          <<L("First_Name"), ZOptional(ZString)>>, <<L("Last_Name"), ZOptional(ZString)>>,
          <<L("Phone"), ZOptional(ZString)>>, <<L("Email"), ZOptional(ZString)>>,
          <<L("Date_Birth"), ZOptional(ZString)>>, <<L("Is_Company"), ZOptional(ZBoolean)>>,
          <<L("Address_Street1"), ZOptional(ZString)>>,
          <<L("Address_Street2"), ZOptional(ZString)>>,
          <<L("Address_City"), ZOptional(ZString)>>,
          <<L("Address_State"), ZOptional(ZString)>>,
          <<L("Address_Country"), ZOptional(ZString)>> >>)>> >>)
    [] name = "listBorrowers" -> ZObject(<< <<L("page"), ZOptional(ZNumber)>> >>)
    [] name = "getBorrower" -> ZObject(<< <<L("borrowerId"), ZString>> >>)
    [] name = "updateBorrower" -> ZObject(<< <<L("borrowerId"), ZString>>,
          <<L("updates"), ZObject(<< <<L("Name"), ZOptional(ZString)>>,
          <<L("First_Name"), ZOptional(ZString)>>, <<L("Last_Name"), ZOptional(ZString)>>,
          <<L("Phone"), ZOptional(ZString)>>, <<L("Date_Birth"), ZOptional(ZString)>>,
          <<L("Is_Company"), ZOptional(ZBoolean)>>,
          <<L("Address_Street1"), ZOptional(ZString)>>,
          <<L("Address_Street2"), ZOptional(ZString)>>,
          <<L("Address_City"), ZOptional(ZString)>>,
          <<L("Address_State"), ZOptional(ZString)>>,
          <<L("Address_Country"), ZOptional(ZString)>> >>)>> >>)
    [] name = "deleteBorrower" -> ZObject(<< <<L("borrowerId"), ZString>> >>)
    [] name = "connectBorrowers" -> ZObject(<< <<L("borrowerId"), ZString>>,
          <<L("connectToBorrowerId"), ZString>> >>)
    [] name = "disconnectBorrowers" -> ZObject(<< <<L("borrowerId"), ZString>>,
          <<L("disconnectFromBorrowerId"), ZString>> >>)
    [] name = "createVendor" -> ZObject(<< <<L("vendorData"), ZObject(<< <<L("Name"), ZOptional(ZString)>>,
          <<L("First_Name"), ZOptional(ZString)>>, <<L("Last_Name"), ZOptional(ZString)>>,
          <<L("Phone"), ZOptional(ZString)>>, <<L("Email"), ZOptional(ZString)>>,
          <<L("Date_Birth"), ZOptional(ZString)>>, <<L("Is_Company"), ZOptional(ZBoolean)>>,
          <<L("Address_Street1"), ZOptional(ZString)>>,
          <<L("Address_Street2"), ZOptional(ZString)>>,
          <<L("Address_City"), ZOptional(ZString)>>,
          <<L("Address_State"), ZOptional(ZString)>>,
          <<L("Address_Country"), ZOptional(ZString)>> >>)>> >>)
    [] name = "listVendors" -> ZObject(<< <<L("page"), ZOptional(ZNumber)>> >>)
    [] name = "getVendor" -> ZObject(<< <<L("vendorId"), ZString>> >>)
    [] name = "updateVendor" -> ZObject(<< <<L("vendorId"), ZString>>,
          <<L("updates"), ZObject(<< <<L("Name"), ZOptional(ZString)>>,
          <<L("First_Name"), ZOptional(ZString)>>, <<L("Last_Name"), ZOptional(ZString)>>,
          <<L("Phone"), ZOptional(ZString)>>, <<L("Date_Birth"), ZOptional(ZString)>>,
          <<L("Is_Company"), ZOptional(ZBoolean)>>,
          <<L("Address_Street1"), ZOptional(ZString)>>,
          <<L("Address_Street2"), ZOptional(ZString)>>,
          <<L("Address_City"), ZOptional(ZString)>>,
          <<L("Address_State"), ZOptional(ZString)>>,
          <<L("Address_Country"), ZOptional(ZString)>> >>)>> >>)
    [] name = "deleteVendor" -> ZObject(<< <<L("vendorId"), ZString>> >>)
    [] name = "connectVendors" -> ZObject(<< <<L("vendorId"), ZString>>,
          <<L("connectToVendorId"), ZString>> >>)
    [] name = "disconnectVendors" -> ZObject(<< <<L("vendorId"), ZString>>,
          <<L("disconnectFromVendorId"), ZString>> >>)
    [] name = "createInvestor" -> ZObject(<< <<L("investorData"), ZObject(<< <<L("Name"), ZOptional(ZString)>>,
          <<L("First_Name"), ZOptional(ZString)>>, <<L("Last_Name"), ZOptional(ZString)>>,
          <<L("Phone"), ZOptional(ZString)>>, <<L("Email"), ZOptional(ZString)>>,
          <<L("Date_Birth"), ZOptional(ZString)>>, <<L("Is_Company"), ZOptional(ZBoolean)>>,
          <<L("Address_Street1"), ZOptional(ZString)>>,
          <<L("Address_Street2"), ZOptional(ZString)>>,
          <<L("Address_City"), ZOptional(ZString)>>,
          <<L("Address_State"), ZOptional(ZString)>>,
          <<L("Address_Country"), ZOptional(ZString)>> >>)>> >>)
    [] name = "listInvestors" -> ZObject(<< <<L("page"), ZOptional(ZNumber)>> >>)
    [] name = "getInvestor" -> ZObject(<< <<L("investorId"), ZString>> >>)
    [] name = "updateInvestor" -> ZObject(<< <<L("investorId"), ZString>>,
          <<L("updates"), ZObject(<< <<L("Name"), ZOptional(ZString)>>,
          <<L("First_Name"), ZOptional(ZString)>>, <<L("Last_Name"), ZOptional(ZString)>>,
          <<L("Phone"), ZOptional(ZString)>>, <<L("Date_Birth"), ZOptional(ZString)>>,
          <<L("Is_Company"), ZOptional(ZBoolean)>>,
          <<L("Address_Street1"), ZOptional(ZString)>>,
          <<L("Address_Street2"), ZOptional(ZString)>>,
          <<L("Address_City"), ZOptional(ZString)>>,
          <<L("Address_State"), ZOptional(ZString)>>,
          <<L("Address_Country"), ZOptional(ZString)>> >>)>> >>)
    [] name = "deleteInvestor" -> ZObject(<< <<L("investorId"), ZString>> >>)
    [] name = "connectInvestors" -> ZObject(<< <<L("investorId"), ZString>>,
          <<L("connectToInvestorId"), ZString>> >>)
    [] name = "disconnectInvestors" -> ZObject(<< <<L("investorId"), ZString>>,
          <<L("disconnectFromInvestorId"), ZString>> >>)

ZodOk(x) == [ok |-> TRUE, v |-> x]
ZodIssue(code) == [ok |-> FALSE, code |-> code]

RECURSIVE ZodParse(_, _)
RECURSIVE ZodParseShape(_, _, _)
RECURSIVE ZodParseElements(_, _, _)

\* after one key of a shape: the first issue ends the parse; a key is kept when
\* it has a value or the input holds it
ZodShapeNext(shape, input, acc, key, r) ==
  IF ~r.ok THEN r
  ELSE ZodParseShape(Tail(shape), input,
                     IF r.v.t # "undefined" \/ HasOwn(input, key)
                     THEN Append(acc, <<key, r.v>>) ELSE acc)

\* the keys of a shape, in its order; a key of the input that the shape does
\* not declare is stripped
ZodParseShape(shape, input, acc) ==
  IF shape = <<>> THEN ZodOk(Obj(acc))
  ELSE ZodShapeNext(shape, input, acc, Head(shape)[1],
                    ZodParse(Head(shape)[2], Get(input, Head(shape)[1])))

ZodElementsNext(element, items, acc, r) ==
  IF ~r.ok THEN r ELSE ZodParseElements(element, Tail(items), Append(acc, r.v))

ZodParseElements(element, items, acc) ==
  IF items = <<>> THEN ZodOk(Arr(acc))
  ELSE ZodElementsNext(element, items, acc, ZodParse(element, Head(items)))

\* schema.safeParse(x)
ZodParse(type, x) ==
  IF type.z = "optional"
  THEN IF x.t = "undefined" THEN ZodOk(x) ELSE ZodParse(type.inner, x)
  ELSE IF type.z \in {"string", "number", "boolean"}
  THEN IF x.t = type.z THEN ZodOk(x) ELSE ZodIssue("invalid_type")
  ELSE IF type.z = "enum"
  THEN IF x.t # "string" THEN ZodIssue("invalid_type")
       ELSE IF x.v \in type.values THEN ZodOk(x) ELSE ZodIssue("invalid_enum_value")
  ELSE IF type.z = "array"
  THEN IF x.t = "array" THEN ZodParseElements(type.element, x.v, <<>>)
       ELSE ZodIssue("invalid_type")
  ELSE IF x.t = "object" THEN ZodParseShape(type.shape, x, <<>>)
       ELSE ZodIssue("invalid_type")

\* the code of a JSON-RPC error for invalid params
InvalidParams == -32602

\* the McpServer answers a call whose arguments fail the schema with an error
\* and passes the parsed arguments of any other call to the callback
CallAnswered(name, args, r) ==
  IF r.ok
  THEN /\ InvokeWith(name, r.v)
       /\ reply' = [kind |-> "accepted", tool |-> name, args |-> args, parsed |-> r.v]
  ELSE /\ reply' = [kind |-> "error", tool |-> name, args |-> args,
                    code |-> InvalidParams, issue |-> r.code]
       /\ UNCHANGED <<gatewayVars, sanitizerVars>>

\* tools/call with {name, arguments}, which a transport passes to the McpServer
CallToolRequest(name, args) ==
  /\ server.state = "ready"
  /\ http.kind = "request"
  /\ http.handledBy # "none"
  /\ pc = "idle"
  /\ \E i \in 1..Len(server.tools) : server.tools[i] = name
  /\ CallAnswered(name, args, ZodParse(inputSchema(name), args))
  /\ UNCHANGED <<env, server, http, sessionVars>>

\* the calls made of the agent as a whole
ServerCalls ==
  CredentialCalls \cup {<<"getLoan", Obj(<<>>)>>, <<"createLoan", MkObj(<< <<L("Name"), Str(L("T"))>> >>)>>}

ToolsCall == \E c \in ServerCalls : CallToolRequest(c[1], c[2])

\* what the environment of the agent can hold
EnvSecrets == {Undefined, Str(L("")), Str(L("sk_live_1")), Str(L("{\"apiKey\":\"abc\"}"))}

RequestUrls ==
  {L("https://mcp.example/sse"), L("https://mcp.example/sse/message"),
   L("https://mcp.example/mcp"), L("https://mcp.example/message"),
   L("https://mcp.example/sse?sessionId=1"), L("https://mcp.example/mcp#top"),
   L("https://mcp.example"), L("https://mcp.example/"), L("https://mcp.example/sse/"),
   L("https://mcp.example/SSE"), L("https://mcp.example/mcp/x"),
   L("https://mcp.example/messages"), L("https://mcp.example/api/sse"),
   L("https://mcp.example/?path=/sse")}

HttpFetch == \E url \in RequestUrls : fetch(url)

InitServer ==
  /\ InitGateway
  /\ InitSanitizer
  /\ env \in EnvSecrets
  /\ server = NewServer
  /\ http = NoRequest
  /\ reply = NoReply
  /\ InitNoSession

NextServer ==
  \/ InitStart
  \/ RegisterNext
  \/ HttpFetch
  \/ ListTools
  \/ ToolsCall
  \/ FetchRejects
  \/ FetchResponds
  \/ Discard

SpecServer == InitServer /\ [][NextServer]_vars

(***************************************************************************)
(* Calls of every tool through the McpServer of a started agent            *)
(***************************************************************************)
\* argument bags with the fields at the top level, as createLoan and
\* createTask declare them, with a field no schema declares, and no bag at all
FlatSamples ==
  {Undefined,
   Obj(<<>>),
   MkObj(<< <<L("Name"), Str(L("T"))>>, <<L("Status"), Str(L("lead"))>> >>),
   MkObj(<< <<L("Name"), Str(L("T"))>>, <<L("Loan_Amount"), Str(L("2"))>> >>),
   MkObj(<< <<L("loanId"), GoodId>>, <<L("page"), Num(2)>>, <<L("extra"), Num(1)>> >>)}

\* argument bags in the shape of each tool
ShapedSamplesOf(d) ==
     CASE d.shape \in {"get", "ledger", "delete"} ->
            {MkObj(<< <<d.id, x>> >>) : x \in {GoodId, Str(L("<>")), Str(L(" \t")), Num(5), Null}}
       [] d.shape = "update" ->
            {MkObj(<< <<d.id, GoodId>>, <<d.data, y>> >>) :
               y \in {GoodData, NestedSample, Str(L("text")), Undefined}}
       [] d.shape = "create" -> {MkObj(<< <<d.data, y>> >>) : y \in {GoodData, Obj(<<>>), Null}}
       [] d.shape = "createTask" -> TaskSamples
       [] d.shape \in {"connect", "disconnect"} ->
            {MkObj(<< <<d.id, GoodId>>, <<d.other, x>> >>) : x \in {GoodId, Undefined, Num(5)}}
       [] d.shape = "listLoans" -> {}
       [] d.shape \in {"listTasks", "listParty"} ->
            {MkObj(<< <<L("page"), x>> >>) : x \in {Num(2), Num(-1), Str(L("2"))}}

ShapedSamples(name) == ShapedSamplesOf(Tool(name))

GatewayArgs(name) == ShapedSamples(name) \cup FlatSamples

HttpPost == fetch(L("https://mcp.example/mcp"))

\* tools/call of a client that sends its next request when it has taken the
\* answer to the last one
GatewayCall ==
  /\ reply = NoReply
  /\ \E name \in ToolNames : \E args \in GatewayArgs(name) : CallToolRequest(name, args)

\* the client takes the answer to its call
TakeReply ==
  /\ reply.kind \in {"accepted", "error"}
  /\ pc # "awaiting"
  /\ reply' = NoReply
  /\ pc' = "idle"
  /\ cur' = NoInvocation
  /\ sent' = <<>>
  /\ resp' = NoResponse
  /\ outcome' = Pending
  /\ UNCHANGED <<BASELINE_API_KEY, BASELINE_API_URL, sanitizerVars, env, server, http, sessionVars>>

InitToolsCall == InitServer /\ BASELINE_API_URL = DefaultApiUrl

NextToolsCall ==
  \/ InitStart
  \/ RegisterNext
  \/ HttpPost
  \/ GatewayCall
  \/ FetchRejects
  \/ FetchResponds
  \/ TakeReply

SpecToolsCall == InitToolsCall /\ [][NextToolsCall]_vars

(***************************************************************************)
(* The event-stream session: a client that opens the stream at /sse and    *)
(* posts its requests to the session endpoint, as createSSEClient does     *)
(***************************************************************************)
MaxRequests == 2

ServerUrl == L("https://mcp.example")

\* the session endpoint that serveSSE("/sse") announces
SessionEndpoint == L("/sse/message?sessionId=1")

RpcMethods == {"initialize", "tools/list", "tools/call"}

Event(name, data) == [event |-> name, data |-> data]
Message(id) == [event |-> "message", id |-> id]

\* the stream after the transport accepted it: the endpoint event comes first
Opened(s, by) ==
  IF by = "serveSSE"
  THEN [s EXCEPT !.open = TRUE, !.events = <<Event("endpoint", SessionEndpoint)>>]
  ELSE s

\* GET /sse
SseOpenAt(url) ==
  /\ server.state = "ready"
  /\ ~sse.open
  /\ http' = Handled(url, Route(Pathname(url)))
  /\ sse' = Opened(sse, Route(Pathname(url)))
  /\ UNCHANGED <<gatewayVars, sanitizerVars, env, server, reply, calls>>

SseOpen == SseOpenAt(ServerUrl \o L("/sse"))

\* the session after a POST: accepted with 202 and queued, or not found
Posted(s, id, method, by) ==
  IF by = "serveSSE"
  THEN [s EXCEPT !.posted = @ \cup {id},
                 !.pending = @ \cup {[id |-> id, method |-> method]},
                 !.lastPost = [kind |-> "post", id |-> id, status |-> 202, body |-> L("")]]
  ELSE [s EXCEPT !.posted = @ \cup {id},
                 !.lastPost = [kind |-> "post", id |-> id, status |-> NotFound.status,
                               body |-> NotFound.body]]

\* createSSEClient.call: the next request id, posted to the session endpoint
\* that the first event of the stream gave
SsePostTo(url, id, method) ==
  /\ sse.open
  /\ sse.events[1].event = "endpoint"
  /\ id <= MaxRequests
  /\ http' = Handled(url, Route(Pathname(url)))
  /\ sse' = Posted(sse, id, method, Route(Pathname(url)))
  /\ UNCHANGED <<gatewayVars, sanitizerVars, env, server, reply, calls>>

SsePost ==
  \E method \in RpcMethods :
    SsePostTo(ServerUrl \o sse.events[1].data, Cardinality(sse.posted) + 1, method)

Delivered(s, r) == [s EXCEPT !.events = Append(@, Message(r.id)), !.pending = @ \ {r}]

\* initialize and tools/list are answered on the stream
SseAnswer ==
  \E r \in sse.pending :
    /\ r.method \in {"initialize", "tools/list"}
    /\ sse' = Delivered(sse, r)
    /\ UNCHANGED <<gatewayVars, sanitizerVars, serverVars, calls>>

\* the session after a tools/call reached the McpServer: an error is answered
\* at once, a handler that was started is waited for
CallStarted(s, r, z) == IF z.ok THEN [s EXCEPT !.running = r.id] ELSE Delivered(s, r)

CallOverSse(r, name, args) ==
  /\ r.method = "tools/call"
  /\ sse.running = 0
  /\ pc = "idle"
  /\ CallAnswered(name, args, ZodParse(inputSchema(name), args))
  /\ sse' = CallStarted(sse, r, ZodParse(inputSchema(name), args))
  /\ UNCHANGED <<env, server, http, calls>>

SseCall == \E r \in sse.pending : \E c \in ServerCalls : CallOverSse(r, c[1], c[2])

\* the ToolResult of the handler is answered on the stream
SseResult ==
  /\ sse.running # 0
  /\ pc = "resolved"
  /\ sse' = [Delivered(sse, [id |-> sse.running, method |-> "tools/call"]) EXCEPT !.running = 0]
  /\ pc' = "idle"
  /\ cur' = NoInvocation
  /\ sent' = <<>>
  /\ resp' = NoResponse
  /\ outcome' = Pending
  /\ UNCHANGED <<BASELINE_API_KEY, BASELINE_API_URL, sanitizerVars, serverVars, calls>>

NextSse ==
  \/ InitStart
  \/ RegisterNext
  \/ SseOpen
  \/ SsePost
  \/ SseAnswer
  \/ SseCall
  \/ SseResult
  \/ FetchRejects
  \/ FetchResponds

\* the transport answers what it accepted, and the upstream call completes
SpecSse ==
  /\ InitToolsCall
  /\ [][NextSse]_vars
  /\ WF_vars(SseAnswer)
  /\ WF_vars(SseCall)
  /\ WF_vars(SseResult)
  /\ WF_vars(FetchRejects \/ FetchResponds)

(***************************************************************************)
(* Concurrent sessions: several invocations in flight at once, each        *)
(* suspended only at its await of fetch; the setters are not called        *)
(***************************************************************************)
MaxSessions == 2

\* the locals of an invocation that has not started
IdleSlot ==
  [pc |-> "idle", tool |-> "none", args |-> Undefined, sent |-> <<>>, resp |-> NoResponse,
   outcome |-> Pending]

\* the locals of an invocation after it ran to its await of fetch or to its return
SlotStarted(name, args, r) ==
  IF r.kind = "settled"
  THEN [pc |-> "resolved", tool |-> name, args |-> args, sent |-> <<>>, resp |-> NoResponse,
        outcome |-> r.outcome]
  ELSE [pc |-> "awaiting", tool |-> name, args |-> args, sent |-> <<r.request>>,
        resp |-> NoResponse, outcome |-> Pending]

\* a handler whose tool is kept in one place for all sessions: it resumes as the
\* handler of the invocation that is furthest along the slots
ResumedAsLast(slots, i, response) ==
  [slots EXCEPT ![i] =
     [@ EXCEPT !.pc = "resolved", !.resp = response,
               !.outcome = Resume(slots[CHOOSE j \in 1..Len(slots) :
                                          /\ slots[j].pc # "idle"
                                          /\ \A k \in (j + 1)..Len(slots) : slots[k].pc = "idle"].tool,
                                  response)]]

\* the handler of slot i resumes with its own locals
Resumed(slots, i, response) ==
  [slots EXCEPT ![i] =
     [@ EXCEPT !.pc = "resolved", !.resp = response,
               !.outcome = Resume(slots[i].tool, response)]]

\* toolHandlers[name](args) in session i
SessionInvoke(i, name, args) ==
  /\ calls[i].pc = "idle"
  /\ calls' = [calls EXCEPT ![i] = SlotStarted(name, args, RunToFetch(name, args))]
  /\ UNCHANGED <<gatewayVars, sanitizerVars, serverVars, sse>>

\* the fetch of session i settles
SessionFetchSettles(i, response) ==
  /\ calls[i].pc = "awaiting"
  /\ calls' = Resumed(calls, i, response)
  /\ UNCHANGED <<gatewayVars, sanitizerVars, serverVars, sse>>

\* session i drops its settled invocation
SessionDiscard(i) ==
  /\ calls[i].pc = "resolved"
  /\ calls' = [calls EXCEPT ![i] = IdleSlot]
  /\ UNCHANGED <<gatewayVars, sanitizerVars, serverVars, sse>>

SessionCalls ==
  CredentialCalls \cup
    {<<"getLoan", MkObj(<< <<L("loanId"), Str(L(" \t"))>> >>)>>,
     <<"listLoans", Obj(<<>>)>>}

SessionResponses ==
  {Response(200, L("OK"), L("{\"Id\":\"1\",\"Name\":\"T\"}")),
   Response(204, L("No Content"), L("")),
   Response(404, L("Not Found"), L("not found")),
   [kind |-> "reject", error |-> NetworkError]}

InitSessions ==
  /\ InitGateway
  /\ InitSanitizer
  /\ InitNoServer
  /\ sse = NoStream
  /\ calls = [i \in 1..MaxSessions |-> IdleSlot]

SessionCall == \E i \in 1..MaxSessions : \E c \in SessionCalls : SessionInvoke(i, c[1], c[2])
SessionSettles ==
  \E i \in 1..MaxSessions : \E response \in SessionResponses : SessionFetchSettles(i, response)
SessionDrops == \E i \in 1..MaxSessions : SessionDiscard(i)

NextSessions ==
  \/ SessionCall
  \/ SessionSettles
  \/ SessionDrops

SpecSessions == InitSessions /\ [][NextSessions]_vars

(***************************************************************************)
(* The sanitizers on their own: sanitizeString and sanitizeObject applied  *)
(* to inputs drawn from bounded sets                                       *)
(***************************************************************************)
MaxStrLen == 2
PadSlack == 1
MaxDepth == 2

SanitizeAlphabet == {"a", " ", "<", ">", "\"", "'", "&"}

Strings(n) == UNION {[1..k -> SanitizeAlphabet] : k \in 0..n}

Pad(c, n) == [i \in 1..n |-> c]

\* strings about as long as the limit of sanitizeString
LongStrings ==
  {p \o Pad(c, n) \o s :
     p \in Strings(1), s \in Strings(1), c \in {"a", "<"},
     n \in (SanitizeMaxLen - PadSlack)..(SanitizeMaxLen + PadSlack)}

Leaves == {Str(L("<b>")), Str(L(" x' ")), Num(7), Null, Bool(TRUE)}

ObjectKeys == {L("a"), L("n"), L("__proto__")}

RECURSIVE ValuesOfDepth(_)
ValuesOfDepth(d) ==
  IF d = 0 THEN Leaves
  ELSE Leaves
       \cup {Arr(<<>>), Obj(<<>>)}
       \cup {Arr(<<x>>) : x \in ValuesOfDepth(d - 1)}
       \cup {Arr(<<Str(L("<b>")), x>>) : x \in ValuesOfDepth(d - 1)}
       \cup {Obj(<< <<k, x>> >>) : k \in ObjectKeys, x \in ValuesOfDepth(d - 1)}
       \cup {Obj(<< <<L("a"), Num(7)>>, <<k, x>> >>) :
               k \in ObjectKeys \ {L("a")}, x \in ValuesOfDepth(d - 1)}

SanitizerInputs ==
  {Str(s) : s \in Strings(MaxStrLen) \cup LongStrings}
  \cup {Str(L("<script>x</script>")), Str(L(" \t a<b \n")), Str(L("< a")), Str(L("a &"))}
  \cup {Undefined}
  \cup ValuesOfDepth(MaxDepth)

InitSanitize ==
  /\ BASELINE_API_KEY = L("")
  /\ BASELINE_API_URL = DefaultApiUrl
  /\ pc = "idle"
  /\ cur = NoInvocation
  /\ sent = <<>>
  /\ resp = NoResponse
  /\ outcome = Pending
  /\ sFn = "none"
  /\ sIn \in SanitizerInputs
  /\ sOut = Pending
  /\ InitNoServer
  /\ InitNoSession

\* sanitizeString(sIn)
CallSanitizeString ==
  /\ sFn = "none"
  /\ sFn' = "sanitizeString"
  /\ sOut' = sanitizeString(sIn)
  /\ UNCHANGED <<sIn, gatewayVars, serverVars, sessionVars>>

\* sanitizeObject(sIn)
CallSanitizeObject ==
  /\ sFn = "none"
  /\ sFn' = "sanitizeObject"
  /\ sOut' = sanitizeObject(sIn)
  /\ UNCHANGED <<sIn, gatewayVars, serverVars, sessionVars>>

NextSanitize == CallSanitizeString \/ CallSanitizeObject

SpecSanitize == InitSanitize /\ [][NextSanitize]_vars

(***************************************************************************)
(* Claims about the handlers and the upstream client (properties of Spec)  *)
(***************************************************************************)
\* the text of the settled invocation's result
ResultText == outcome.result.content[1].text.v

\* a value that is absent: undefined or null
Absent(x) == x.t \in {"undefined", "null"}

\* a string that is empty or holds white space only
Blank(x) == x.t = "string" /\ \A i \in 1..Len(x.v) : IsWhitespace(x.v[i])

\* the fields of a tool that hold an identifier
IdFields(name) ==
  LET d == Tool(name)
  IN CASE d.shape \in {"get", "ledger", "delete", "update"} -> {d.id}
       [] d.shape \in {"connect", "disconnect"} -> {d.id, d.other}
       [] OTHER -> {}

\* the field of a tool that holds an object
DataFields(name) ==
  LET d == Tool(name)
  IN IF d.shape \in {"update", "create"} THEN {d.data} ELSE {}

RequiredSet(name) == {RequiredFields(name)[i] : i \in DOMAIN RequiredFields(name)}

\* the checks a handler makes of its arguments before any upstream call, read
\* off the handlers: a required field absent, an identifier that is not a
\* non-empty string, an object field that is not an object, a page of
\* listTasks that is not a non-negative number
ArgsRejected(name, args) ==
  \/ RequiredSet(name) # {} /\ ~Truthy(args)
  \/ \E f \in RequiredSet(name) : Absent(Get(args, f))
  \/ \E f \in IdFields(name) : Get(args, f).t # "string" \/ Blank(Get(args, f))
  \/ \E f \in DataFields(name) : Get(args, f).t \notin {"object", "array"}
  \/ /\ name = "listTasks"
     /\ Truthy(args)
     /\ Truthy(Get(args, L("page")))
     /\ Get(args, L("page")).t # "number" \/ Get(args, L("page")).v < 0

SuccessStatus(r) == r.kind = "response" /\ r.status \in 200..299

\* the upstream outcomes that are failures
UpstreamFailed ==
  \/ resp.kind = "reject"
  \/ resp.kind = "response" /\ ~SuccessStatus(resp)
  \/ SuccessStatus(resp) /\ resp.body # <<>> /\ ~JSONParse(resp.body).ok

WellFormed(r) ==
  /\ DOMAIN r = {"content", "isError"}
  /\ Len(r.content) = 1
  /\ DOMAIN r.content[1] = {"type", "text"}
  /\ r.content[1].type = "text"
  /\ r.content[1].text.t = "string"
  /\ r.isError \in BOOLEAN

\* C1: every handler, for every argument value (null and undefined args,
\* missing fields, wrong-typed fields) and every upstream outcome (no
\* credential, network failure, non-2xx status, 2xx with malformed JSON),
\* returns a ToolResult and never throws to its caller; when the arguments
\* are rejected, no credential is configured or the upstream call fails, the
\* result has isError = true.
C1_NeverThrows ==
  /\ outcome.kind # "thrown"
  /\ pc # "resolved" => outcome = Pending
  /\ pc = "resolved" =>
       /\ outcome.kind = "returned"
       /\ WellFormed(outcome.result)
       /\ (ArgsRejected(cur.tool, cur.args) \/ cur.key = <<>> \/ UpstreamFailed)
            => outcome.result.isError = TRUE

\* createTask got a 2xx response whose body is not JSON, and returned an error
C1_Witness ==
  /\ pc = "resolved"
  /\ cur.tool = "createTask"
  /\ SuccessStatus(resp)
  /\ resp.body = L("<html>")
  /\ outcome.kind = "returned"
  /\ outcome.result.isError = TRUE

\* C2: every ToolResult a handler returns has a content sequence of exactly
\* one element, of type "text" with a string text, and a boolean isError;
\* isError is false only if exactly one upstream call was issued and it
\* completed with a success status and a body that is empty or parses.
C2_ToolResultShape ==
  outcome.kind = "returned" =>
    /\ Len(outcome.result.content) = 1
    /\ outcome.result.content[1].type = "text"
    /\ outcome.result.content[1].text.t = "string"
    /\ outcome.result.isError \in BOOLEAN
    /\ outcome.result.isError = FALSE =>
         /\ Len(sent) = 1
         /\ resp.kind = "response"
         /\ resp.status >= 200 /\ resp.status <= 299
         /\ resp.body = <<>> \/ JSONParse(resp.body).ok

\* a handler returned a success for a 204 response with an empty body
C2_Witness ==
  /\ outcome.kind = "returned"
  /\ outcome.result.isError = FALSE
  /\ resp.kind = "response"
  /\ resp.status = 204
  /\ resp.body = <<>>
  /\ Len(sent) = 1

\* what the original and the amended C3 share: at most one request for an
\* invocation, none when the arguments are rejected, and no second request
\* after an upstream failure
C3_General ==
  /\ Len(sent) <= 1
  /\ (pc # "idle" /\ ArgsRejected(cur.tool, cur.args)) => sent = <<>>
  /\ (pc = "resolved" /\ resp.kind # "none") => Len(sent) = 1

\* C3 as stated: an invocation issues at most one HTTP request, and exactly
\* one when all validation and sanitization steps pass; an upstream failure
\* is never followed by a second request.
C3_Original ==
  /\ C3_General
  /\ (pc # "idle" /\ ~ArgsRejected(cur.tool, cur.args)) => Len(sent) = 1

\* C3 as amended: an invocation issues at most one HTTP request; exactly one
\* when all validation and sanitization steps pass and a credential is
\* configured, none when no credential is configured; an upstream failure is
\* never followed by a second request.
C3_SingleRequest ==
  /\ C3_General
  /\ (pc # "idle" /\ ~ArgsRejected(cur.tool, cur.args) /\ cur.key # <<>>) => Len(sent) = 1
  /\ (pc # "idle" /\ cur.key = <<>>) => sent = <<>>

\* the one request of an invocation failed in the network, and the invocation
\* settled with that one request
C3_Witness ==
  /\ pc = "resolved"
  /\ resp.kind = "reject"
  /\ Len(sent) = 1
  /\ outcome.result.isError = TRUE

\* an invocation whose arguments hold an identifier that is blank
HasBlankIdentifier ==
  /\ pc = "resolved"
  /\ cur.args.t = "object"
  /\ \E f \in IdFields(cur.tool) : Blank(Get(cur.args, f))

\* what the original and the amended C4 share: a blank identifier gives an
\* error result and no upstream request
C4_General ==
  HasBlankIdentifier =>
    /\ outcome.kind = "returned"
    /\ outcome.result.isError = TRUE
    /\ sent = <<>>

\* C4 as stated: a tool invoked with an identifier field (loanId, taskId,
\* borrowerId, vendorId, investorId, the second identifier of connect* and
\* disconnect*) set to the empty string or to white space only returns
\* isError = true with a text containing "non-empty string", and no upstream
\* request is issued.
C4_Original ==
  /\ C4_General
  /\ HasBlankIdentifier => Contains(ResultText, L("non-empty string"))

\* C4 as amended: the same, the text containing "non-empty string" provided
\* that no required field of the tool is absent (undefined or null); when one
\* is, the result is still an error and no request is issued.
C4_BlankIdentifier ==
  /\ C4_General
  /\ (HasBlankIdentifier /\ \A f \in RequiredSet(cur.tool) : ~Absent(Get(cur.args, f)))
       => Contains(ResultText, L("non-empty string"))

\* connectVendors was called with a second identifier of white space only
C4_Witness ==
  /\ pc = "resolved"
  /\ cur.tool = "connectVendors"
  /\ cur.args.t = "object"
  /\ Get(cur.args, L("vendorId")) = Str(L("42"))
  /\ Get(cur.args, L("connectToVendorId")) = Str(L(" \t"))
  /\ outcome.result.isError = TRUE
  /\ Contains(ResultText, L("non-empty string"))
  /\ sent = <<>>

\* C5: a tool invoked with a valid identifier and its object field (updates,
\* loanData, borrowerData, vendorData, investorData) set to a string, a
\* number or null returns isError = true with a text containing "must be an
\* object".
C5_ObjectField ==
  (/\ pc = "resolved"
   /\ cur.args.t = "object"
   /\ \A f \in IdFields(cur.tool) : Get(cur.args, f).t = "string" /\ ~Blank(Get(cur.args, f))
   /\ \E f \in DataFields(cur.tool) : Get(cur.args, f).t \in {"string", "number", "null"})
  =>
    /\ outcome.kind = "returned"
    /\ outcome.result.isError = TRUE
    /\ Contains(ResultText, L("must be an object"))

ConfigurationMessage ==
  L("BASELINE_API_KEY is not configured. Please set it via environment variables or the 'setBaselineApiKey' function.")

\* C6: when the credential global is empty, every request of the upstream
\* client fails with the configuration error before any HTTP request is
\* sent, and the tool that made it returns isError = true with that error's
\* message.
C6_NoCredential ==
  (pc # "idle" /\ cur.key = <<>>) =>
    /\ sent = <<>>
    /\ pc = "resolved"
    /\ outcome.kind = "returned"
    /\ outcome.result.isError = TRUE
    /\ ~ArgsRejected(cur.tool, cur.args) => Contains(ResultText, ConfigurationMessage)

\* updateTask passed its validation with no credential configured and
\* returned the configuration error without a request
C6_Witness ==
  /\ pc = "resolved"
  /\ cur.key = <<>>
  /\ cur.tool = "updateTask"
  /\ ~ArgsRejected(cur.tool, cur.args)
  /\ sent = <<>>
  /\ outcome.result.isError = TRUE
  /\ Contains(ResultText, ConfigurationMessage)

\* C8: when the upstream responds with a status outside the success range,
\* the invocation resolves to isError = true with a text containing the
\* status code, the status text and the raw response body (404 with body
\* "not found" gives a text containing "404" and "not found"), and the body
\* is not parsed as JSON: a body that is no JSON raises no parse error, and a
\* body that is JSON is reported as it was received.
C8_UpstreamError ==
  (pc = "resolved" /\ resp.kind = "response" /\ ~(resp.status \in 200..299)) =>
    /\ outcome.kind = "returned"
    /\ outcome.result.isError = TRUE
    /\ Contains(ResultText, NumChars(resp.status))
    /\ Contains(ResultText, resp.statusText)
    /\ Contains(ResultText, resp.body)
    /\ ~Contains(ResultText, L("Unexpected token"))
    /\ (resp.status = 404 /\ resp.body = L("not found")) =>
         Contains(ResultText, L("404")) /\ Contains(ResultText, L("not found"))

\* deleteBorrower got 404 "not found" and returned an error naming both
C8_Witness ==
  /\ pc = "resolved"
  /\ cur.tool = "deleteBorrower"
  /\ resp.kind = "response"
  /\ resp.status = 404
  /\ resp.body = L("not found")
  /\ outcome.result.isError = TRUE
  /\ Contains(ResultText, L("404 Not Found - Body: not found"))

(***************************************************************************)
(* The claim about the credential (a property of SpecCredential)           *)
(***************************************************************************)
\* the priority of the lookup, as the claim gives it
C7_Priority == <<L("BASELINE_API_KEY"), L("apiKey"), L("key"), L("value"), L("secret")>>

\* v is what the lookup of the claim finds in the parsed credential o: the
\* value of the first priority key that has one, else the first string-valued
\* field
C7_Found(o, v) ==
  \/ \E k \in 1..Len(C7_Priority) :
       /\ Truthy(Get(o, C7_Priority[k]))
       /\ \A j \in 1..(k - 1) : ~Truthy(Get(o, C7_Priority[j]))
       /\ v = ToJsString(Get(o, C7_Priority[k]))
  \/ /\ \A k \in 1..Len(C7_Priority) : ~Truthy(Get(o, C7_Priority[k]))
     /\ \E i \in 1..Len(Values(o)) :
          /\ Values(o)[i].t = "string"
          /\ \A j \in 1..(i - 1) : Values(o)[j].t # "string"
          /\ v = Values(o)[i].v

C7_FindsNothing(o) ==
  /\ \A k \in 1..Len(C7_Priority) : ~Truthy(Get(o, C7_Priority[k]))
  /\ \A i \in 1..Len(Values(o)) : Values(o)[i].t # "string"

\* the token of a request's Authorization header is t
C7_Token(request, t) == request.Authorization = L("Token ") \o t

C7_Example ==
  \A i \in 1..Len(sent) :
    cur.key = L("{\"apiKey\":\"abc\"}") =>
      /\ sent[i].Authorization = L("Token abc")
      /\ sent[i].Authorization # L("Token ") \o cur.key

\* C7 as stated: for every configured credential c, the Authorization header
\* of every request is "Token t", where t is c itself if c does not parse as
\* a JSON object, and otherwise the value found by the lookup BASELINE_API_KEY,
\* apiKey, key, value, secret, else the first string-valued field;
\* '{"apiKey":"abc"}' gives "Token abc" and never the raw JSON string.
C7_Original ==
  /\ C7_Example
  /\ \A i \in 1..Len(sent) :
       IF JSONParse(cur.key).ok /\ JSONParse(cur.key).v.t = "object"
       THEN /\ StartsWith(sent[i].Authorization, L("Token "))
            /\ C7_Found(JSONParse(cur.key).v,
                        SubSeq(sent[i].Authorization, 7, Len(sent[i].Authorization)))
       ELSE C7_Token(sent[i], cur.key)

\* C7 as amended: t is c itself if c does not parse as a JSON object or
\* array, or parses as one in which the lookup finds nothing; otherwise t is
\* the value of the first of BASELINE_API_KEY, apiKey, key, value, secret
\* whose value is truthy, else the first string-valued field in the order
\* the fields are enumerated (integer keys first, ascending; an array's
\* elements in order); '{"apiKey":"abc"}' gives "Token abc" and never the
\* raw JSON string.
C7_Credential ==
  /\ C7_Example
  /\ \A i \in 1..Len(sent) :
       IF JSONParse(cur.key).ok /\ JSONParse(cur.key).v.t \in {"object", "array"}
          /\ ~C7_FindsNothing(JSONParse(cur.key).v)
       THEN /\ StartsWith(sent[i].Authorization, L("Token "))
            /\ C7_Found(JSONParse(cur.key).v,
                        SubSeq(sent[i].Authorization, 7, Len(sent[i].Authorization)))
       ELSE C7_Token(sent[i], cur.key)

\* a request went out under a credential whose JSON holds two priority keys,
\* the later one first, with the value of the earlier one
C7_Witness ==
  /\ cur.key = L("{\"secret\":\"s1\",\"apiKey\":\"a1\"}")
  /\ Len(sent) = 1
  /\ sent[1].Authorization = L("Token a1")

(***************************************************************************)
(* Claims about the sanitizers (properties of SpecSanitize)                *)
(***************************************************************************)
\* the claim's reading of sanitizeString, written without the operators of the
\* model: the string between the leading and the trailing white space ...
RefTrim(s) ==
  LET first == CHOOSE i \in 1..(Len(s) + 1) :
                 /\ i = Len(s) + 1 \/ ~IsWhitespace(s[i])
                 /\ \A j \in 1..(i - 1) : IsWhitespace(s[j])
      last == CHOOSE i \in 0..Len(s) :
                 /\ i = 0 \/ ~IsWhitespace(s[i])
                 /\ \A j \in (i + 1)..Len(s) : IsWhitespace(s[j])
  IN [k \in 1..(last - first + 1) |-> s[first + k - 1]]

\* ... with every one of the five characters removed ...
RECURSIVE RefStrip(_)
RefStrip(s) ==
  IF Len(s) = 0 THEN <<>>
  ELSE IF Len(s) = 1 THEN (IF s[1] \in {"<", ">", "\"", "'", "&"} THEN <<>> ELSE <<s[1]>>)
  ELSE RefStrip(SubSeq(s, 1, Len(s) \div 2)) \o RefStrip(SubSeq(s, Len(s) \div 2 + 1, Len(s)))

\* ... and cut to its first 1000 characters
RefSanitized(s) ==
  LET stripped == RefStrip(RefTrim(s))
  IN [k \in 1..(IF Len(stripped) < 1000 THEN Len(stripped) ELSE 1000) |-> stripped[k]]

\* the general statement of C9, which the original and the amended claim share
C9_General ==
  sFn = "sanitizeString" =>
    /\ sIn.t # "string" =>
         /\ sOut.kind = "throw"
         /\ sOut.error.message = L("Input must be a string")
    /\ sIn.t = "string" =>
         /\ sOut.kind = "value"
         /\ sOut.v.t = "string"
         /\ sOut.v.v = RefSanitized(sIn.v)
         /\ \A i \in 1..Len(sOut.v.v) : sOut.v.v[i] \notin {"<", ">", "\"", "'", "&"}
         /\ Len(sOut.v.v) <= 1000

\* C9 as stated: sanitizeString throws its validation error on every input
\* that is not a string; on a string it returns the input trimmed, then
\* stripped of < > " ' &, then cut to its first 1000 characters, so the result
\* holds none of the five characters and at most 1000 characters; and
\* "<script>x</script>" gives "scriptxscript".
C9_Original ==
  /\ C9_General
  /\ (sFn = "sanitizeString" /\ sIn = Str(L("<script>x</script>")))
       => sOut.v.v = L("scriptxscript")

\* C9 as amended: the same, except that "<script>x</script>" gives
\* "scriptx/script": the slash is not one of the five characters.
C9_SanitizeString ==
  /\ C9_General
  /\ (sFn = "sanitizeString" /\ sIn = Str(L("<script>x</script>")))
       => sOut.v.v = L("scriptx/script")

\* a string longer than the limit, with white space to trim and characters to
\* strip, was sanitized to exactly 1000 characters
C9_Witness ==
  /\ sFn = "sanitizeString"
  /\ sIn.t = "string"
  /\ Len(sIn.v) > SanitizeMaxLen + 1
  /\ IsWhitespace(sIn.v[1])
  /\ \E i \in 1..Len(sIn.v) : sIn.v[i] \in UnsafeChars
  /\ sOut.kind = "value"
  /\ Len(sOut.v.v) = SanitizeMaxLen

\* the claim's reading of "the same shape": y is x with every string leaf
\* sanitized and nothing else changed
RECURSIVE SameShapeSanitized(_, _)
SameShapeSanitized(x, y) ==
  CASE x.t = "string" -> y = Str(RefSanitized(x.v))
    [] x.t = "array" ->
         /\ y.t = "array"
         /\ Len(y.v) = Len(x.v)
         /\ \A i \in 1..Len(x.v) : SameShapeSanitized(x.v[i], y.v[i])
    [] x.t = "object" ->
         /\ y.t = "object"
         /\ Len(y.v) = Len(x.v)
         /\ \A i \in 1..Len(x.v) :
              y.v[i][1] = x.v[i][1] /\ SameShapeSanitized(x.v[i][2], y.v[i][2])
    [] OTHER -> y = x

\* C10: sanitizeObject throws its validation error on every input that is not
\* a non-null object; on every other input the result has the shape of the
\* input (same keys, same lengths and order, same nesting), every string leaf
\* sanitized and every other leaf unchanged.
C10_SanitizeObject ==
  sFn = "sanitizeObject" =>
    /\ (TypeOf(sIn) # "object" \/ sIn.t = "null") =>
         /\ sOut.kind = "throw"
         /\ sOut.error.message = L("Input must be an object")
    /\ (TypeOf(sIn) = "object" /\ sIn.t # "null") =>
         /\ sOut.kind = "value"
         /\ SameShapeSanitized(sIn, sOut.v)

(***************************************************************************)
(* Claims about the requests and the results (properties of Spec)          *)
(***************************************************************************)
\* the verb and the resource a tool's name is made of
C11_Verb(name) ==
  CASE name \in {"getLoan", "getTask", "getBorrower", "getVendor", "getInvestor"} -> "get"
    [] name = "getLoanLedger" -> "ledger"
    [] name \in {"listLoans", "listTasks", "listBorrowers", "listVendors", "listInvestors"} -> "list"
    [] name \in {"createLoan", "createTask", "createBorrower", "createVendor", "createInvestor"} -> "create"
    [] name \in {"updateLoan", "updateTask", "updateBorrower", "updateVendor", "updateInvestor"} -> "update"
    [] name \in {"deleteTask", "deleteBorrower", "deleteVendor", "deleteInvestor"} -> "delete"
    [] name \in {"connectBorrowers", "connectVendors", "connectInvestors"} -> "connect"
    [] name \in {"disconnectBorrowers", "disconnectVendors", "disconnectInvestors"} -> "disconnect"

C11_Resource(name) ==
  CASE name \in {"getLoan", "getLoanLedger", "listLoans", "createLoan", "updateLoan"} -> L("/loan")
    [] name \in {"getTask", "listTasks", "createTask", "updateTask", "deleteTask"} -> L("/task")
    [] name \in {"getBorrower", "listBorrowers", "createBorrower", "updateBorrower",
                 "deleteBorrower", "connectBorrowers", "disconnectBorrowers"} -> L("/borrower")
    [] name \in {"getVendor", "listVendors", "createVendor", "updateVendor",
                 "deleteVendor", "connectVendors", "disconnectVendors"} -> L("/vendor")
    [] name \in {"getInvestor", "listInvestors", "createInvestor", "updateInvestor",
                 "deleteInvestor", "connectInvestors", "disconnectInvestors"} -> L("/investor")

\* the identifier fields of a tool, as its schema names them
C11_Id(name) ==
  CASE C11_Resource(name) = L("/loan") -> L("loanId")
    [] C11_Resource(name) = L("/task") -> L("taskId")
    [] C11_Resource(name) = L("/borrower") -> L("borrowerId")
    [] C11_Resource(name) = L("/vendor") -> L("vendorId")
    [] C11_Resource(name) = L("/investor") -> L("investorId")

C11_OtherId(name) ==
  CASE name = "connectBorrowers" -> L("connectToBorrowerId")
    [] name = "disconnectBorrowers" -> L("disconnectFromBorrowerId")
    [] name = "connectVendors" -> L("connectToVendorId")
    [] name = "disconnectVendors" -> L("disconnectFromVendorId")
    [] name = "connectInvestors" -> L("connectToInvestorId")
    [] name = "disconnectInvestors" -> L("disconnectFromInvestorId")

C11_Method(name) ==
  CASE C11_Verb(name) \in {"get", "ledger", "list"} -> "GET"
    [] C11_Verb(name) = "create" -> "POST"
    [] C11_Verb(name) = "update" -> "PATCH"
    [] C11_Verb(name) \in {"delete", "disconnect"} -> "DELETE"
    [] C11_Verb(name) = "connect" -> "PUT"

\* the part of a request path before its query string
PathOnly(path) ==
  IF \E i \in 1..Len(path) : path[i] = "?"
  THEN SubSeq(path, 1, (CHOOSE i \in 1..Len(path) :
                          path[i] = "?" /\ \A j \in 1..(i - 1) : path[j] # "?") - 1)
  ELSE path

\* the path the claim gives a tool and its arguments
C11_Path(name, args) ==
  LET res == C11_Resource(name)
      id == RefSanitized(Get(args, C11_Id(name)).v)
  IN CASE C11_Verb(name) \in {"get", "update", "delete"} -> res \o L("/") \o id
       [] C11_Verb(name) = "ledger" -> res \o L("/") \o id \o L("/transaction")
       [] C11_Verb(name) \in {"list", "create"} -> res
       [] C11_Verb(name) \in {"connect", "disconnect"} ->
            res \o L("/") \o id \o L("/connect/")
                \o RefSanitized(Get(args, C11_OtherId(name)).v)

\* C11: for every tool and every argument bag that passes validation, the one
\* upstream request has the method and the path fixed by the tool name and
\* the sanitized identifiers (get: GET /res/{id}; getLoanLedger: GET
\* /loan/{id}/transaction; list: GET /res; create: POST /res; update: PATCH
\* /res/{id}; delete: DELETE /res/{id}; connect: PUT
\* /res/{id}/connect/{otherId} with the empty object as body; disconnect:
\* DELETE /res/{id}/connect/{otherId} with no body); method and path are a
\* function of the tool and its arguments alone.
C11_MethodAndPath ==
  \A i \in 1..Len(sent) :
    /\ ~ArgsRejected(cur.tool, cur.args)
    /\ sent[i].method = C11_Method(cur.tool)
    /\ IF C11_Verb(cur.tool) = "list"
       THEN PathOnly(sent[i].path) = C11_Path(cur.tool, cur.args)
       ELSE sent[i].path = C11_Path(cur.tool, cur.args)
    /\ C11_Verb(cur.tool) = "connect" => sent[i].body = Str(L("{}"))
    /\ C11_Verb(cur.tool) = "disconnect" => sent[i].body = Undefined

\* connectInvestors sent PUT /investor/42/connect/7 for the identifiers "42"
\* and " 7 "
C11_Witness ==
  /\ Len(sent) = 1
  /\ cur.tool = "connectInvestors"
  /\ Get(cur.args, L("connectToInvestorId")) = Str(L(" 7 "))
  /\ sent[1].method = "PUT"
  /\ sent[1].path = L("/investor/42/connect/7")
  /\ sent[1].body = Str(L("{}"))

\* the data of a successful response, as the claims read it: the body parsed,
\* the empty object for an empty body
BodyValue(r) == IF r.body = <<>> THEN Obj(<<>>) ELSE JSONParse(r.body).v

SuccessfulBody == SuccessStatus(resp) /\ (resp.body = <<>> \/ JSONParse(resp.body).ok)

\* the list of listLoans: the body's loans field when it has one, else the body
C12_List(b) == IF HasOwn(b, L("loans")) THEN Get(b, L("loans")) ELSE b

\* C12: listLoans, for every successful upstream body: the result text is a
\* JSON object whose loans field is the body's loans field when the body has
\* one and the whole body otherwise, and whose totalCount field is the number
\* of elements of that list (the length of the loans array when the body
\* carries one).
C12_ListLoans ==
  (pc = "resolved" /\ cur.tool = "listLoans" /\ SuccessfulBody) =>
    /\ outcome.kind = "returned"
    /\ outcome.result.isError = FALSE
    /\ JSONParse(ResultText).ok
    /\ JSONParse(ResultText).v.t = "object"
    /\ Get(JSONParse(ResultText).v, L("loans")) = C12_List(BodyValue(resp))
    /\ Get(JSONParse(ResultText).v, L("totalCount")).t = "number"
    /\ C12_List(BodyValue(resp)).t = "array" =>
         Get(JSONParse(ResultText).v, L("totalCount")) = Num(Len(C12_List(BodyValue(resp)).v))

\* the page argument of the invocation under way
PageArg == IF cur.args.t = "object" THEN Get(cur.args, L("page")) ELSE Undefined

\* every request of the invocation is GET path, and there is one when a
\* credential is configured
IssuesGet(path) ==
  /\ cur.key # <<>> => Len(sent) = 1
  /\ \A i \in 1..Len(sent) : sent[i].method = "GET" /\ sent[i].path = path

\* C13: listTasks with a negative page (page = -1) returns isError = true
\* with a text mentioning "non-negative number" and issues no request; with
\* page = 2 it issues GET /task?page=2; with no page it issues GET /task
\* with no query string.
C13_ListTasksPage ==
  (pc # "idle" /\ cur.tool = "listTasks") =>
    /\ (PageArg.t = "number" /\ PageArg.v < 0) =>
         /\ pc = "resolved"
         /\ outcome.kind = "returned"
         /\ outcome.result.isError = TRUE
         /\ Contains(ResultText, L("non-negative number"))
         /\ sent = <<>>
    /\ PageArg = Num(2) => IssuesGet(L("/task?page=2"))
    /\ PageArg = Undefined => IssuesGet(L("/task"))

\* listTasks({page: -1}) returned the error and sent nothing
C13_Witness ==
  /\ pc = "resolved"
  /\ cur.tool = "listTasks"
  /\ PageArg = Num(-1)
  /\ outcome.result.isError = TRUE
  /\ Contains(ResultText, L("non-negative number"))
  /\ sent = <<>>

\* C14: for listTasks, listBorrowers, listVendors and listInvestors and every
\* value of page, a page query parameter is appended to the request path only
\* when page is provided and is a non-negative number; a page that is
\* negative or not a number is never forwarded upstream.
C14_PageForwarding ==
  \A i \in 1..Len(sent) :
    (/\ cur.tool \in {"listTasks", "listBorrowers", "listVendors", "listInvestors"}
     /\ Contains(sent[i].path, L("?")))
    => (PageArg.t = "number" /\ PageArg.v >= 0)

\* C15: for every tool other than listLoans and every successful upstream
\* JSON body b, the text of the success result parses as JSON to a value
\* equal to b, no key added and none removed; createTask with only Name
\* supplied succeeds and echoes the upstream fields verbatim.
C15_RoundTrip ==
  (/\ pc = "resolved"
   /\ cur.tool # "listLoans"
   /\ SuccessStatus(resp)
   /\ resp.body # <<>>
   /\ JSONParse(resp.body).ok)
  =>
    /\ outcome.kind = "returned"
    /\ outcome.result.isError = FALSE
    /\ JSONParse(ResultText).ok
    /\ JSONParse(ResultText).v = JSONParse(resp.body).v
    /\ (cur.tool = "createTask" /\ resp.body = L("{\"Id\":\"1\",\"Name\":\"T\"}")) =>
         ResultText = L("{\n  \"Id\": \"1\",\n  \"Name\": \"T\"\n}")

\* createTask({Name: "T"}) succeeded and returned the upstream task
C15_Witness ==
  /\ pc = "resolved"
  /\ cur.tool = "createTask"
  /\ cur.args = Obj(<< <<L("Name"), Str(L("T"))>> >>)
  /\ resp.kind = "response"
  /\ resp.body = L("{\"Id\":\"1\",\"Name\":\"T\"}")
  /\ outcome.result.isError = FALSE
  /\ Get(JSONParse(ResultText).v, L("Id")) = Str(L("1"))

(***************************************************************************)
(* Claims about the agent (properties of SpecServer)                       *)
(***************************************************************************)
DescriptorNames == {toolDefinitions[i].name : i \in 1..Len(toolDefinitions)}

SeqRange(s) == {s[i] : i \in 1..Len(s)}

\* C16: the names of toolDefinitions are pairwise distinct, every descriptor
\* has a handler of its name in toolHandlers and every handler a descriptor,
\* so that after a successful init (one with a credential in the environment)
\* every descriptor is registered with the server and tools/list returns the
\* whole registry, getLoan, listLoans, createLoan, getTask, listTasks,
\* createTask and deleteTask included.
C16_Registry ==
  /\ \A i, j \in 1..Len(toolDefinitions) :
       i # j => toolDefinitions[i].name # toolDefinitions[j].name
  /\ DescriptorNames = ToolNames
  /\ (Truthy(env) /\ server.state # "new") => server.state \in {"registering", "ready"}
  /\ server.state = "ready" =>
       /\ Len(server.tools) = Len(toolDefinitions)
       /\ \A i \in 1..Len(toolDefinitions) : server.tools[i] = toolDefinitions[i].name
  /\ reply.kind = "tools" =>
       /\ SeqRange(reply.tools) = DescriptorNames
       /\ Len(reply.tools) = Cardinality(DescriptorNames)
       /\ {"getLoan", "listLoans", "createLoan", "getTask", "listTasks", "createTask",
           "deleteTask"} \subseteq SeqRange(reply.tools)

\* tools/list was answered after an init with a credential, with the 31 tools
C16_Witness ==
  /\ Truthy(env)
  /\ server.state = "ready"
  /\ reply.kind = "tools"
  /\ Len(reply.tools) = 31
  /\ reply.tools[1] = "getLoan"
  /\ reply.tools[31] = "disconnectInvestors"

\* C17: every get* and list* descriptor is read-only, idempotent and not
\* destructive; every delete* descriptor is destructive, idempotent and not
\* read-only; every create*, update*, connect* and disconnect* descriptor is
\* neither read-only, nor destructive, nor idempotent; every descriptor
\* is in one of these classes, and the server registers no other tool.
C17_Annotations ==
  /\ \A i \in 1..Len(toolDefinitions) :
       LET d == toolDefinitions[i]
           verb == C11_Verb(d.name)
       IN /\ verb \in {"get", "ledger", "list"} =>
               d.readOnlyHint /\ d.idempotentHint /\ ~d.destructiveHint
          /\ verb = "delete" =>
               d.destructiveHint /\ d.idempotentHint /\ ~d.readOnlyHint
          /\ verb \in {"create", "update", "connect", "disconnect"} =>
               ~d.readOnlyHint /\ ~d.destructiveHint /\ ~d.idempotentHint
          /\ verb \in {"get", "ledger", "list", "delete", "create", "update", "connect",
                       "disconnect"}
  /\ SeqRange(server.tools) \subseteq DescriptorNames

\* the registry is loaded and holds a delete tool marked destructive, a list
\* tool marked read-only and a connect tool marked neither
C17_Witness ==
  /\ server.state = "ready"
  /\ \E i, j, k \in 1..Len(toolDefinitions) :
       /\ toolDefinitions[i].name = "deleteVendor" /\ toolDefinitions[i].destructiveHint
       /\ server.tools[i] = "deleteVendor"
       /\ toolDefinitions[j].name = "listTasks" /\ toolDefinitions[j].readOnlyHint
       /\ toolDefinitions[k].name = "connectBorrowers" /\ ~toolDefinitions[k].idempotentHint

\* C18: when the environment supplies no credential (BASELINE_API_KEY absent
\* or empty), MyMCP.init fails, registers no tool and leaves the process-wide
\* credential as it was; when one is supplied, it is stored before any tool
\* is registered.
C18_FailFast ==
  /\ (server.state # "new" /\ (env = Undefined \/ env = Str(<<>>))) =>
       /\ server.state = "failed"
       /\ server.tools = <<>>
       /\ BASELINE_API_KEY = server.keyBefore
  /\ (env # Undefined /\ env # Str(<<>>)) =>
       /\ server.state # "failed"
       /\ server.state \in {"registering", "ready"} => BASELINE_API_KEY = env.v
       /\ server.tools # <<>> => BASELINE_API_KEY = env.v
       /\ server.state = "new" => server.tools = <<>>

\* init failed for an empty credential in the environment, and the credential
\* the process had is still there
C18_Witness ==
  /\ env = Str(<<>>)
  /\ server.state = "failed"
  /\ server.tools = <<>>
  /\ BASELINE_API_KEY = L("sk_live_1")
  /\ server.keyBefore = L("sk_live_1")

\* the path of the last request, as the claim reads it: what follows the host
\* up to the query string or the fragment
C19_Path ==
  LET rest == SubSeq(http.url, Len(L("https://mcp.example")) + 1, Len(http.url))
      cut == IF \E i \in 1..Len(rest) : rest[i] \in {"?", "#"}
             THEN (CHOOSE i \in 1..Len(rest) :
                     rest[i] \in {"?", "#"} /\ \A j \in 1..(i - 1) : rest[j] \notin {"?", "#"}) - 1
             ELSE Len(rest)
  IN IF cut = 0 THEN L("/") ELSE SubSeq(rest, 1, cut)

\* C19: a request whose path is /sse or /sse/message is handed to the
\* event-stream transport, one whose path is /mcp or /message to the
\* streamable-HTTP transport, and a request with any other path receives a
\* 404 "Not found" response without reaching a transport or a tool handler.
C19_Routing ==
  /\ [](http.kind = "request" =>
          /\ C19_Path \in {L("/sse"), L("/sse/message")} => http.handledBy = "serveSSE"
          /\ C19_Path \in {L("/mcp"), L("/message")} => http.handledBy = "serve"
          /\ C19_Path \notin {L("/sse"), L("/sse/message"), L("/mcp"), L("/message")} =>
               /\ http.handledBy = "none"
               /\ http.response.status = 404
               /\ http.response.body = L("Not found"))
  /\ [][(http' # http /\ http'.handledBy = "none") =>
          UNCHANGED <<gatewayVars, sanitizerVars, env, server, reply>>]_vars
  /\ [][(pc = "idle" /\ pc' # "idle") =>
          (http.kind = "request" /\ http.handledBy # "none")]_vars

\* a request for /sse/ (with a trailing slash) was answered 404
C19_Witness ==
  /\ http.kind = "request"
  /\ http.url = L("https://mcp.example/sse/")
  /\ http.handledBy = "none"
  /\ http.response = [status |-> 404, body |-> L("Not found")]

(***************************************************************************)
(* Claims about the text of a failure (properties of Spec)                 *)
(***************************************************************************)
\* a text of the form "Error <doing X>: <message>": the word Error, a space,
\* a non-empty action that holds no colon, a colon and a space
C20_ActionPrefixed(text) ==
  /\ Len(text) >= 9
  /\ SubSeq(text, 1, 6) = L("Error ")
  /\ \E k \in 8..(Len(text) - 1) :
       /\ text[k] = ":"
       /\ text[k + 1] = " "
       /\ \A j \in 7..(k - 1) : text[j] # ":"

\* C20: every failure result of every tool (validation, type or shape check,
\* sanitization, configuration, upstream) has a text of the form
\* "Error <doing X>: <message>", prefixed with the action attempted, and the
\* failure is returned as a result, never thrown.
C20_ErrorText ==
  /\ outcome.kind # "thrown"
  /\ (outcome.kind = "returned" /\ outcome.result.isError = TRUE) =>
       /\ outcome.result.content[1].text.t = "string"
       /\ C20_ActionPrefixed(ResultText)

(***************************************************************************)
(* Claims about calls through the McpServer (properties of SpecToolsCall)  *)
(***************************************************************************)
\* the fields the input schema of a descriptor requires, read off the
\* descriptors: the identifiers, the updates of update*, the data of
\* create{Borrower,Vendor,Investor}, the Name of createTask, none for
\* createLoan and list*
C21_SchemaRequires(name) ==
  CASE C11_Verb(name) \in {"get", "ledger", "delete"} -> {C11_Id(name)}
    [] C11_Verb(name) = "update" -> {C11_Id(name), L("updates")}
    [] C11_Verb(name) \in {"connect", "disconnect"} -> {C11_Id(name), C11_OtherId(name)}
    [] name = "createTask" -> {L("Name")}
    [] name = "createBorrower" -> {L("borrowerData")}
    [] name = "createVendor" -> {L("vendorData")}
    [] name = "createInvestor" -> {L("investorData")}
    [] OTHER -> {}

\* the arguments of the last tools/call omit a field its schema requires
C21_OmitsRequired ==
  /\ reply.kind \in {"accepted", "error"}
  /\ \E f \in C21_SchemaRequires(reply.tool) : Get(reply.args, f) = Undefined

\* C21: a tools/call for a registered tool whose arguments omit a field that
\* the descriptor's input schema requires (getLoan with {}) is answered with
\* the invalid-params error (-32602, invalid_type) and not with a ToolResult;
\* the handler is not invoked and no upstream request is issued.
C21_InvalidParams ==
  /\ [](C21_OmitsRequired =>
          /\ reply.kind = "error"
          /\ reply.code = -32602
          /\ reply.issue = "invalid_type")
  /\ [][(reply' # reply /\ reply'.kind = "error") =>
          /\ pc = "idle" /\ pc' = "idle"
          /\ UNCHANGED <<cur, sent, resp, outcome, BASELINE_API_KEY, BASELINE_API_URL>>]_vars
  /\ [][(reply' # reply /\ reply'.kind = "accepted") => ~C21_OmitsRequired']_vars

\* getLoan was called with {} and answered with the error, with no invocation
C21_Witness ==
  /\ reply.kind = "error"
  /\ reply.tool = "getLoan"
  /\ reply.args = Obj(<<>>)
  /\ reply.code = -32602
  /\ pc = "idle"
  /\ sent = <<>>
  /\ outcome = Pending

(***************************************************************************)
(* Claims about the event-stream session (properties of SpecSse)           *)
(***************************************************************************)
C22_MessagesFor(id) == {i \in 1..Len(sse.events) : sse.events[i].event = "message" /\ sse.events[i].id = id}

C23_RequestsAlone(name, args) ==
  IF RunToFetch(name, args).kind = "settled" THEN <<>> ELSE <<RunToFetch(name, args).request>>

\* what an invocation returns when it runs alone and fetch settles with response
C23_OutcomeAlone(name, args, response) ==
  IF RunToFetch(name, args).kind = "settled" THEN RunToFetch(name, args).outcome
  ELSE Resume(name, response)

C24_MissingRequired ==
  /\ RequiredSet(cur.tool) # {}
  /\ ~Truthy(cur.args) \/ \E f \in RequiredSet(cur.tool) : Absent(Get(cur.args, f))

\* C24: required-field validation runs first, then the type and shape checks,
\* then sanitization, then the upstream call: when the arguments are rejected
\* no upstream request has been or will be issued for the invocation, a
\* missing required field is reported as such whatever else is wrong with the
\* arguments, and with no credential configured an invalid argument bag is
\* reported as a validation error, not as a configuration error.
C24_StepOrder ==
  /\ sent # <<>> => ~ArgsRejected(cur.tool, cur.args)
  /\ (pc = "resolved" /\ ArgsRejected(cur.tool, cur.args)) =>
       /\ sent = <<>>
       /\ resp = NoResponse
       /\ outcome.kind = "returned"
       /\ outcome.result.isError = TRUE
       /\ ~Contains(ResultText, L("BASELINE_API_KEY is not configured"))
       /\ IF C24_MissingRequired
          THEN Contains(ResultText, L("Missing required argument: "))
          ELSE Contains(ResultText, L(" must be "))

\* with no credential, updateLoan was called with a blank identifier and no
\* updates, and the missing field was reported
C24_Witness ==
  /\ pc = "resolved"
  /\ cur.key = <<>>
  /\ cur.tool = "updateLoan"
  /\ cur.args.t = "object"
  /\ Get(cur.args, L("loanId")) = Str(<<>>)
  /\ Absent(Get(cur.args, L("updates")))
  /\ sent = <<>>
  /\ ResultText = L("Error updating loan: Missing required argument: updates")

(***************************************************************************)
(* Claims about the two globals (properties of Spec)                       *)
(***************************************************************************)
\* the token the claim expects for a configured credential of the samples
C25_TokenOf(key) == IF key = L("{\"apiKey\":\"abc\"}") THEN L("abc") ELSE key

\* this step hands a request to fetch
C25_Issues == Len(sent') = Len(sent) + 1

C25_Step ==
  /\ BASELINE_API_KEY' # BASELINE_API_KEY =>
       /\ \E key \in SetterApiKeys : key.t = "string" /\ BASELINE_API_KEY' = key.v
       /\ UNCHANGED <<BASELINE_API_URL, pc, cur, sent, resp, outcome>>
  /\ BASELINE_API_URL' # BASELINE_API_URL =>
       UNCHANGED <<BASELINE_API_KEY, pc, cur, sent, resp, outcome>>
  /\ (pc' # pc \/ cur' # cur \/ outcome' # outcome) =>
       UNCHANGED <<BASELINE_API_KEY, BASELINE_API_URL>>
  /\ C25_Issues =>
       /\ sent'[Len(sent')].url = BASELINE_API_URL \o sent'[Len(sent')].path
       /\ sent'[Len(sent')].Authorization = L("Token ") \o C25_TokenOf(BASELINE_API_KEY)
       /\ BASELINE_API_URL = L("https://production.baselinesoftware.com/production/api") =>
            StartsWith(sent'[Len(sent')].url,
                       L("https://production.baselinesoftware.com/production/api/"))
  /\ pc = "awaiting" => sent' = sent

\* C25: the credential and the endpoint change only in a step of
\* setBaselineApiKey or setBaselineApiUrl, which touches nothing of an
\* invocation; no step of an invocation changes either; a request carries the
\* endpoint and the credential of the moment it is issued (the production URL
\* while that is the endpoint), so a request issued after a setter uses the
\* new value; and a request in flight is not changed by a setter.
C25_Globals == [][C25_Step]_vars

\* a request is in flight and both globals were set after it was issued
C25_Witness ==
  /\ pc = "awaiting"
  /\ sent[1].url # BASELINE_API_URL \o sent[1].path
  /\ sent[1].Authorization # L("Token ") \o C25_TokenOf(BASELINE_API_KEY)
  /\ BASELINE_API_URL = DefaultApiUrl

(***************************************************************************)
(* Claims about the life of an invocation (properties of SpecCompletes)    *)
(***************************************************************************)
\* the outcome is one ToolResult: one text item and a boolean isError
C26_OneToolResult(o) ==
  /\ o.kind = "returned"
  /\ DOMAIN o.result = {"content", "isError"}
  /\ Len(o.result.content) = 1
  /\ o.result.content[1].type = "text"
  /\ o.result.content[1].text.t = "string"
  /\ o.result.isError \in BOOLEAN

C26_Step ==
  /\ pc = "idle" /\ pc' # "idle" =>
       /\ pc' \in {"awaiting", "resolved"}
       /\ ArgsRejected(cur'.tool, cur'.args) => pc' = "resolved" /\ sent' = <<>>
  /\ pc = "awaiting" /\ pc' # "awaiting" => pc' = "resolved" /\ cur' = cur
  /\ pc = "resolved" => pc' # "awaiting" /\ (pc' = "resolved" => outcome' = outcome)
  /\ pc' = "resolved" <=> outcome' # Pending
  /\ pc' = "resolved" => C26_OneToolResult(outcome')

\* C26: an invocation is pending and then resolved, with nothing in between:
\* a call either resolves at once or waits on fetch, from where its only move
\* is to resolved; a resolved invocation keeps its outcome and never waits
\* again; a resolved invocation has exactly one ToolResult and a pending one
\* has none; rejected arguments resolve in the step of the call, with no
\* request; and when fetch settles, a waiting invocation is eventually resolved.
C26_Lifecycle ==
  /\ [][C26_Step]_vars
  /\ (pc = "awaiting") ~> (pc = "resolved" /\ C26_OneToolResult(outcome))

\* an invocation that waited on fetch is resolved with its result
C26_Witness ==
  /\ pc = "resolved"
  /\ sent # <<>>
  /\ resp.kind = "response"
  /\ C26_OneToolResult(outcome)
  /\ outcome.result.isError = FALSE

(***************************************************************************)
(* Claims about an empty response body (properties of Spec)                *)
(***************************************************************************)
\* the invocation is resolved on a success response with an empty body
C27_EmptySuccess ==
  /\ pc = "resolved"
  /\ resp.kind = "response"
  /\ resp.status \in 200..299
  /\ resp.body = L("")

\* the result is a success whose text parses as JSON
C27_Parses ==
  /\ C26_OneToolResult(outcome)
  /\ outcome.result.isError = FALSE
  /\ JSONParse(ResultText).ok

C27_ParsesTo(x) == C27_Parses /\ JSONParse(ResultText).v = x

\* C27 as stated: for every tool, a success response with an empty body
\* gives isError = false with a text that parses to {}.
C27_Original == C27_EmptySuccess => C27_ParsesTo(Obj(<<>>))

\* C27: for every tool, a success response with an empty body gives
\* isError = false with a text that parses as JSON: to {} for every tool but
\* listLoans, and for listLoans to an object whose loans field is {}.
C27_EmptyBody ==
  C27_EmptySuccess =>
    IF cur.tool = "listLoans"
    THEN C27_Parses /\ Get(JSONParse(ResultText).v, L("loans")) = Obj(<<>>)
    ELSE C27_ParsesTo(Obj(<<>>))

\* deleteTask is answered 204 with no body
C27_Witness ==
  /\ C27_EmptySuccess
  /\ cur.tool = "deleteTask"
  /\ resp.status = 204
  /\ ResultText = L("{}")

(***************************************************************************)
(* Claims about the path of a request (properties of Spec)                 *)
(***************************************************************************)
\* a path with an empty segment: it ends in "/" or holds "//"
C28_EmptySegment(path) ==
  \/ path # <<>> /\ path[Len(path)] = "/"
  \/ Contains(path, L("//"))

\* C28: for every tool that takes identifiers, no request it issues has an
\* empty identifier segment in its path: none is addressed to a bare
\* collection path such as /loan/.
C28_IdSegments ==
  \A i \in 1..Len(sent) :
    IdFields(cur.tool) # {} => ~C28_EmptySegment(sent[i].path)

(***************************************************************************)
(* Claims about schema and handler (properties of SpecToolsCall)           *)
(***************************************************************************)
\* the handler was called with arguments the tool's schema accepted
C29_Accepted ==
  /\ reply.kind = "accepted"
  /\ cur.tool = reply.tool
  /\ cur.args = reply.parsed
  /\ pc = "resolved"

\* C29: for every registered tool, arguments that its input schema accepts
\* pass the handler's validation of required fields: a call that was accepted
\* is never answered "Missing required argument".
C29_Agreement ==
  C29_Accepted =>
    ~(/\ outcome.result.isError = TRUE
      /\ Contains(ResultText, L("Missing required argument: ")))

(***************************************************************************)
(* Claims about sanitizing twice (properties of SpecSanitize)              *)
(***************************************************************************)
\* C30: sanitizeString is idempotent: sanitizing the result of sanitizeString
\* again gives the same string.
C30_Idempotent ==
  (sFn = "sanitizeString" /\ sOut.kind = "value") => sanitizeString(sOut.v) = sOut

====
